---- MODULE Spec2Model ----
(***************************************************************************)
(* Model of backend/blockchain_service.py: the canonical hasher            *)
(* (compute_record_hash), the in-memory MockLedger and the                 *)
(* BlockchainService facade that composes them.                            *)
(*                                                                         *)
(* Every coroutine of MockLedger and BlockchainService runs without an     *)
(* inner suspension point that yields to another task (the only awaits are *)
(* on coroutines that themselves never suspend), so each facade call is    *)
(* one step of the state machine.  SpecConcurrent follows review           *)
(* coroutines from await to await, SpecSteps follows anchors, reviews and  *)
(* reads statement by statement, SpecStore calls MockLedger without the    *)
(* facade, SpecHash applies compute_record_hash to records whose keys are  *)
(* in every order and SpecFields to records whose fields change;           *)
(* SpecPresence adds and removes the hashed fields of a record and         *)
(* SpecReviews reviews one anchored record again and again.                *)
(***************************************************************************)
EXTENDS FiniteSets, Integers, Sequences, TLC

VARIABLES
    records,        \* MockLedger.records : record_id -> LedgerRecord
    access_logs,    \* MockLedger.access_logs : list of AccessLogEntry
    tx_counter,     \* MockLedger.tx_counter
    initialized,    \* BlockchainService._initialized
    clock,          \* last value read from datetime.now(timezone.utc)
    response,       \* the most recent call and what it returned or raised
    held,           \* the result of a read that a caller still holds
    tasks,          \* the review coroutines in flight, each with its position
    hash_arg,       \* a record handed to compute_record_hash, as ordered items
    hash_ret        \* the digest compute_record_hash returned for it

vars == <<records, access_logs, tx_counter, initialized, clock, response, held, tasks, hash_arg, hash_ret>>

---------------------------------------------------------------------------
(* Bounds of the exploration.                                              *)

MaxTx == 2          \* cap on tx_counter, the number of audited operations

MaxStoreTx == 2     \* cap on tx_counter when MockLedger is called directly

MaxTasks == 2       \* number of review coroutines in flight together

---------------------------------------------------------------------------
(* Python values.  A value carries its type tag, a string payload and an   *)
(* integer payload so that values of different Python types stay           *)
(* comparable.                                                             *)

PyNone == [t |-> "NoneType", s |-> "", n |-> 0]
PyStr(x) == [t |-> "str", s |-> x, n |-> 0]
PyInt(i) == [t |-> "int", s |-> "", n |-> i]

\* The float whose value is the integer i, such as 1000.0.
PyFloat(i) == [t |-> "float", s |-> "", n |-> i]

\* Optional[X]: None is the empty tuple, a value x is <<x>>.
None == << >>
Some(x) == <<x>>

\* The empty dict {}.
EmptyDict == << >>

\* dict.get(key, default)
Get(d, key, default) == IF key \in DOMAIN d THEN d[key] ELSE default

\* str(value) for the value types above
Str(v) ==
    CASE v.t = "str" -> v.s
      [] v.t = "int" -> ToString(v.n)
      [] v.t = "float" -> ToString(v.n) \o ".0"
      [] v.t = "NoneType" -> "None"

\* str.upper() on the strings that occur as decisions and flag statuses
Upper(x) ==
    CASE x = "approved" -> "APPROVED"
      [] x = "Rejected" -> "REJECTED"
      [] x = "pending_review" -> "PENDING_REVIEW"
      [] x = "review" -> "REVIEW"
      [] x = "urgent" -> "URGENT"
      [] x = "bogus" -> "BOGUS"
      [] OTHER -> x

---------------------------------------------------------------------------
(* Enumerations and configuration.                                         *)

RecordStatus == {"PENDING_REVIEW", "APPROVED", "REJECTED", "NEEDS_VERIFICATION", "PRIORITY"}

FlagStatus == {"NORMAL", "REVIEW", "PRIORITY"}

FABRIC_MSP_ID == "StateMSP"

---------------------------------------------------------------------------
(* Hash computation.                                                       *)

hashable_fields ==
    {"record_id", "household_id", "name", "age", "sex", "relation",
     "caste", "income", "region", "district", "state", "pin_code",
     "latitude", "longitude", "welfare_score", "ration_card_type",
     "scheme_enrollment_count", "employment_status", "occupation_category",
     "sector", "housing_type", "water_source", "toilet_access",
     "cooking_fuel", "internet_access", "household_size",
     "parent_id", "spouse_id"}

\* The string stored in the canonical dict for one field value.
canonical_value(value) == IF value.t = "NoneType" THEN "" ELSE Str(value)

\* compute_record_hash that selects the two id fields only.
compute_record_hash_ids(record) ==
    {<<field, canonical_value(record[field])>> :
        field \in (DOMAIN record) \cap {"record_id", "household_id"}}

\* compute_record_hash.  json.dumps(sort_keys=True) of a str -> str dict is
\* an injective encoding of the set of its (key, value) pairs, and SHA-256
\* is taken as collision free, so the digest is represented by that set.
compute_record_hash(record) ==
    {<<field, canonical_value(record[field])>> :
        field \in (DOMAIN record) \cap hashable_fields}

verify_record_hash(record, expected_hash) ==
    compute_record_hash(record) = expected_hash

\* The same computation on a dict with its insertion order: the dict is the
\* sequence of its (key, value) items, keys distinct, in the order in which
\* they were inserted.
Keys(items) == {items[i][1] : i \in DOMAIN items}

\* record[field]
Item(items, key) == items[CHOOSE i \in DOMAIN items : items[i][1] = key][2]

\* The dict without its order.
dict_of(items) == [key \in Keys(items) |-> Item(items, key)]

\* sorted(hashable_fields)
sorted_hashable_fields ==
    <<"age", "caste", "cooking_fuel", "district", "employment_status",
      "household_id", "household_size", "housing_type", "income",
      "internet_access", "latitude", "longitude", "name",
      "occupation_category", "parent_id", "pin_code", "ration_card_type",
      "record_id", "region", "relation", "scheme_enrollment_count",
      "sector", "sex", "spouse_id", "state", "toilet_access",
      "water_source", "welfare_score">>

\* canonical that leaves out the fields whose value is None.
canonical_omits_null(items) ==
    LET present == SelectSeq(sorted_hashable_fields,
                             LAMBDA field : field \in Keys(items) /\ Item(items, field) # PyNone)
    IN [i \in 1..Len(present) |-> <<present[i], canonical_value(Item(items, present[i]))>>]

\* The dict "canonical" after the loop of lines 128-138, in insertion order.
canonical(items) ==
    LET present == SelectSeq(sorted_hashable_fields, LAMBDA field : field \in Keys(items))
    IN [i \in 1..Len(present) |-> <<present[i], canonical_value(Item(items, present[i]))>>]

\* The position of a key in the order of strings (all keys are fields).
rank(key) == CHOOSE i \in DOMAIN sorted_hashable_fields : sorted_hashable_fields[i] = key

\* json.dumps(canonical, sort_keys=True, separators=(',', ':')): the text is
\* represented by the sequence of (key, value) pairs it lists.
json_dumps(d) == SortSeq(d, LAMBDA a, b : rank(a[1]) < rank(b[1]))

\* hashlib.sha256(...).hexdigest(), taken as collision free.
sha256(text) == text

\* compute_record_hash that lists the hashed fields in the order in which
\* the record holds them and serialises the dict without sorting.
compute_record_hash_insertion(items) ==
    LET kept == SelectSeq(items, LAMBDA item : item[1] \in hashable_fields)
    IN sha256([i \in 1..Len(kept) |-> <<kept[i][1], canonical_value(kept[i][2])>>])

\* compute_record_hash without the allow-list: every key of the record is
\* hashed.
compute_record_hash_every_key(items) ==
    sha256([i \in DOMAIN items |-> <<items[i][1], canonical_value(items[i][2])>>])

compute_record_hash_items(items) == sha256(json_dumps(canonical(items)))

---------------------------------------------------------------------------
(* Exceptions and results.                                                 *)

NoExc == [type |-> "", msg |-> ""]
AlreadyExists == [type |-> "ValueError", msg |-> "already exists on ledger"]
NotFound == [type |-> "ValueError", msg |-> "not found on ledger"]
InvalidArgument == [type |-> "ValueError", msg |-> "Invalid decision"]
AttributeError == [type |-> "AttributeError", msg |-> "object has no attribute 'upper'"]

\* What a call that raised returns.
NoReturn == [raised |-> TRUE]

\* The ledger as one value, so that the MockLedger methods are operators.
Ledger == [records |-> records, access_logs |-> access_logs, tx_counter |-> tx_counter]

\* _generate_tx_id that formats the time alone.
generate_tx_id_stamp(L, now) == [n |-> 0, ts |-> now]

\* _generate_tx_id: the id formats the incremented counter and the
\* second-resolution time; the pair determines the string and conversely.
generate_tx_id(L, now) == [n |-> L.tx_counter + 1, ts |-> now]

\* log_id numbered by len(self.records).
log_id_of_records(record_id, L) == <<"LOG", record_id, Cardinality(DOMAIN L.records)>>

\* log_id = f"LOG_{record_id}_{len(self.access_logs)}"
log_id_of(record_id, L) == <<"LOG", record_id, Len(L.access_logs)>>

\* details is the sequence of the parts its f-string joins.
AccessLogEntry(L, record_id, accessor_id, action_type, details, now, tx_id) ==
    [log_id |-> log_id_of(record_id, L),
     record_id |-> record_id,
     accessor_id |-> accessor_id,
     accessor_msp |-> FABRIC_MSP_ID,
     action_type |-> action_type,
     details |-> details,
     timestamp |-> now,
     tx_id |-> tx_id]

---------------------------------------------------------------------------
(* MockLedger.  Each method maps the ledger before the call to the ledger  *)
(* after it (L), the exception raised (exc) and the value returned (ret).  *)

\* The dataclass, with its defaults version = 1 and previous_hash = None.
\* LedgerRecord whose previous_hash starts as its own data_hash.
LedgerRecord_self_linked(record_id, data_hash, owner_household_id, current_status, flag_status, created_by, created_at, last_updated_by, last_updated_at) ==
    [record_id |-> record_id,
     data_hash |-> data_hash,
     owner_household_id |-> owner_household_id,
     current_status |-> current_status,
     flag_status |-> flag_status,
     created_by |-> created_by,
     created_at |-> created_at,
     last_updated_by |-> last_updated_by,
     last_updated_at |-> last_updated_at,
     version |-> 1,
     previous_hash |-> Some(data_hash)]

LedgerRecord(record_id, data_hash, owner_household_id, current_status, flag_status, created_by, created_at, last_updated_by, last_updated_at) ==
    [record_id |-> record_id,
     data_hash |-> data_hash,
     owner_household_id |-> owner_household_id,
     current_status |-> current_status,
     flag_status |-> flag_status,
     created_by |-> created_by,
     created_at |-> created_at,
     last_updated_by |-> last_updated_by,
     last_updated_at |-> last_updated_at,
     version |-> 1,
     previous_hash |-> None]

\* put that assigns the record to every key of the dict.
put_everywhere(recs, record_id, rec) == [r \in DOMAIN recs \cup {record_id} |-> rec]

\* put that starts a new dict: the records stored before are gone.
put_alone(recs, record_id, rec) == [r \in {record_id} |-> rec]

\* self.records[record_id] = rec
put(recs, record_id, rec) ==
    [r \in DOMAIN recs \cup {record_id} |-> IF r = record_id THEN rec ELSE recs[r]]

\* audited with access_logs.insert(0, entry) in place of append.
audited_front(L, recs, record_id, accessor_id, action_type, details, now) ==
    LET tx_id == generate_tx_id(L, now)
    IN [L |-> [records |-> recs,
               access_logs |-> <<AccessLogEntry(L, record_id, accessor_id, action_type,
                                                details, now, tx_id)>> \o L.access_logs,
               tx_counter |-> L.tx_counter + 1],
        exc |-> NoExc,
        ret |-> tx_id]

\* audited that calls _generate_tx_id twice.
audited_two_ids(L, recs, record_id, accessor_id, action_type, details, now) ==
    LET tx_id == generate_tx_id([L EXCEPT !.tx_counter = L.tx_counter + 1], now)
    IN [L |-> [records |-> recs,
               access_logs |-> Append(L.access_logs,
                   AccessLogEntry(L, record_id, accessor_id, action_type,
                                  details, now, tx_id)),
               tx_counter |-> L.tx_counter + 2],
        exc |-> NoExc,
        ret |-> tx_id]

\* The tail shared by the methods: take a transaction id, append the audit
\* entry, leave the records as recs.
audited(L, recs, record_id, accessor_id, action_type, details, now) ==
    LET tx_id == generate_tx_id(L, now)
    IN [L |-> [records |-> recs,
               access_logs |-> Append(L.access_logs,
                   AccessLogEntry(L, record_id, accessor_id, action_type,
                                  details, now, tx_id)),
               tx_counter |-> L.tx_counter + 1],
        exc |-> NoExc,
        ret |-> tx_id]

\* initialize_record without the existence check: the record is overwritten.
initialize_record_overwrite(L, record_id, data_hash, household_id, flag_status, user_id, now) ==
    audited(L,
            put(L.records, record_id,
                LedgerRecord(record_id, data_hash, household_id, "PENDING_REVIEW",
                             flag_status, user_id, now, user_id, now)),
            record_id, user_id, "INITIALIZE", <<"Record initialized on ledger">>, now)

\* initialize_record that stores the record and returns a transaction id
\* without appending the audit entry.
initialize_record_unlogged(L, record_id, data_hash, household_id, flag_status, user_id, now) ==
    IF record_id \in DOMAIN L.records
    THEN [L |-> L, exc |-> AlreadyExists, ret |-> NoReturn]
    ELSE [L |-> [records |-> put(L.records, record_id,
                     LedgerRecord(record_id, data_hash, household_id, "PENDING_REVIEW",
                                  flag_status, user_id, now, user_id, now)),
                 access_logs |-> L.access_logs,
                 tx_counter |-> L.tx_counter + 1],
          exc |-> NoExc,
          ret |-> generate_tx_id(L, now)]

initialize_record(L, record_id, data_hash, household_id, flag_status, user_id, now) ==
    IF record_id \in DOMAIN L.records
    THEN [L |-> L, exc |-> AlreadyExists, ret |-> NoReturn]
    ELSE audited(L,
                 put(L.records, record_id,
                     LedgerRecord(record_id, data_hash, household_id, "PENDING_REVIEW",
                                  flag_status, user_id, now, user_id, now)),
                 record_id, user_id, "INITIALIZE",
                 <<"Record initialized on ledger">>, now)

\* reviewed without "record.version += 1".
reviewed_same_version(old, reviewer_id, decision, new_hash, now) ==
    [old EXCEPT !.current_status = decision,
                !.last_updated_by = reviewer_id,
                !.last_updated_at = now,
                !.previous_hash = IF new_hash # None THEN Some(old.data_hash)
                                                    ELSE old.previous_hash,
                !.data_hash = IF new_hash # None THEN new_hash[1] ELSE old.data_hash]

\* reviewed with lines 248 and 249 exchanged: data_hash is overwritten
\* before it is copied into previous_hash.
reviewed_overwrite_first(old, reviewer_id, decision, new_hash, now) ==
    [old EXCEPT !.current_status = decision,
                !.last_updated_by = reviewer_id,
                !.last_updated_at = now,
                !.version = old.version + 1,
                !.previous_hash = IF new_hash # None THEN Some(new_hash[1])
                                                    ELSE old.previous_hash,
                !.data_hash = IF new_hash # None THEN new_hash[1] ELSE old.data_hash]

\* reviewed whose version is the one a review that read the record at
\* its creation would write: two reviews both write version 2.
reviewed_lost_update(old, reviewer_id, decision, new_hash, now) ==
    [old EXCEPT !.current_status = decision,
                !.last_updated_by = reviewer_id,
                !.last_updated_at = now,
                !.version = 2,
                !.previous_hash = IF new_hash # None THEN Some(old.data_hash)
                                                    ELSE old.previous_hash,
                !.data_hash = IF new_hash # None THEN new_hash[1] ELSE old.data_hash]

\* reviewed that shifts data_hash into previous_hash in every review,
\* also in one that supplies no new hash.
reviewed_shift_always(old, reviewer_id, decision, new_hash, now) ==
    [old EXCEPT !.current_status = decision,
                !.last_updated_by = reviewer_id,
                !.last_updated_at = now,
                !.version = old.version + 1,
                !.previous_hash = Some(old.data_hash),
                !.data_hash = IF new_hash # None THEN new_hash[1] ELSE old.data_hash]

\* reviewed that records the reviewer as the creator of the record.
reviewed_takes_over(old, reviewer_id, decision, new_hash, now) ==
    [old EXCEPT !.current_status = decision,
                !.created_by = reviewer_id,
                !.created_at = now,
                !.last_updated_by = reviewer_id,
                !.last_updated_at = now,
                !.version = old.version + 1,
                !.previous_hash = IF new_hash # None THEN Some(old.data_hash)
                                                    ELSE old.previous_hash,
                !.data_hash = IF new_hash # None THEN new_hash[1] ELSE old.data_hash]

\* reviewed without "record.last_updated_by = reviewer_id".
reviewed_keeps_updater(old, reviewer_id, decision, new_hash, now) ==
    [old EXCEPT !.current_status = decision,
                !.last_updated_at = now,
                !.version = old.version + 1,
                !.previous_hash = IF new_hash # None THEN Some(old.data_hash)
                                                    ELSE old.previous_hash,
                !.data_hash = IF new_hash # None THEN new_hash[1] ELSE old.data_hash]

\* reviewed with "record.version += 2".
reviewed_double_step(old, reviewer_id, decision, new_hash, now) ==
    [old EXCEPT !.current_status = decision,
                !.last_updated_by = reviewer_id,
                !.last_updated_at = now,
                !.version = old.version + 2,
                !.previous_hash = IF new_hash # None THEN Some(old.data_hash)
                                                    ELSE old.previous_hash,
                !.data_hash = IF new_hash # None THEN new_hash[1] ELSE old.data_hash]

\* The record after lines 242-249.  new_hash is Optional[str]; a digest is
\* never the empty string, so "if new_hash:" is "new_hash is not None".
reviewed(old, reviewer_id, decision, new_hash, now) ==
    [old EXCEPT !.current_status = decision,
                !.last_updated_by = reviewer_id,
                !.last_updated_at = now,
                !.version = old.version + 1,
                !.previous_hash = IF new_hash # None THEN Some(old.data_hash)
                                                    ELSE old.previous_hash,
                !.data_hash = IF new_hash # None THEN new_hash[1] ELSE old.data_hash]

\* review_record that takes its transaction id before it looks the record
\* up: the failed call has consumed an id.
ledger_review_record_counted(L, record_id, reviewer_id, decision, new_hash, now) ==
    IF record_id \notin DOMAIN L.records
    THEN [L |-> [L EXCEPT !.tx_counter = L.tx_counter + 1], exc |-> NotFound, ret |-> NoReturn]
    ELSE audited(L,
                 put(L.records, record_id,
                     reviewed(L.records[record_id], reviewer_id, decision, new_hash, now)),
                 record_id, reviewer_id, "REVIEW", <<"Decision: ", decision>>, now)

\* review_record that appends its REVIEW entry before it looks the record
\* up: a refused review is in the log.
ledger_review_record_logs_first(L, record_id, reviewer_id, decision, new_hash, now) ==
    IF record_id \notin DOMAIN L.records
    THEN [L |-> audited(L, L.records, record_id, reviewer_id, "REVIEW",
                        <<"Decision: ", decision>>, now).L,
          exc |-> NotFound,
          ret |-> NoReturn]
    ELSE audited(L,
                 put(L.records, record_id,
                     reviewed(L.records[record_id], reviewer_id, decision, new_hash, now)),
                 record_id, reviewer_id, "REVIEW", <<"Decision: ", decision>>, now)

\* review_record for which REJECTED is final: a rejected record is not
\* reviewed again.
ledger_review_record_final(L, record_id, reviewer_id, decision, new_hash, now) ==
    IF record_id \notin DOMAIN L.records \/ L.records[record_id].current_status = "REJECTED"
    THEN [L |-> L, exc |-> NotFound, ret |-> NoReturn]
    ELSE audited(L,
                 put(L.records, record_id,
                     reviewed(L.records[record_id], reviewer_id, decision, new_hash, now)),
                 record_id, reviewer_id, "REVIEW", <<"Decision: ", decision>>, now)

ledger_review_record(L, record_id, reviewer_id, decision, new_hash, now) ==
    IF record_id \notin DOMAIN L.records
    THEN [L |-> L, exc |-> NotFound, ret |-> NoReturn]
    ELSE audited(L,
                 put(L.records, record_id,
                     reviewed(L.records[record_id], reviewer_id, decision, new_hash, now)),
                 record_id, reviewer_id, "REVIEW", <<"Decision: ", decision>>, now)

\* IntegrityResult, with the Optional fields of the dataclass; timestamp is
\* stamped by __post_init__.
IntegrityResult(record_id, verified, on_chain_hash, provided_hash, current_status, last_updated_at, error, now) ==
    [record_id |-> record_id,
     verified |-> verified,
     on_chain_hash |-> on_chain_hash,
     provided_hash |-> provided_hash,
     current_status |-> current_status,
     last_updated_at |-> last_updated_at,
     error |-> error,
     timestamp |-> now]

\* ledger_verify_integrity that returns the result of an existing record
\* without appending the audit entry.
ledger_verify_integrity_unlogged(L, record_id, provided_hash, accessor_id, now) ==
    IF record_id \notin DOMAIN L.records
    THEN [L |-> L, exc |-> NoExc,
          ret |-> IntegrityResult(record_id, FALSE, None, None, None, None,
                                  Some("Record not found on ledger"), now)]
    ELSE LET record == L.records[record_id]
         IN [L |-> L, exc |-> NoExc,
             ret |-> IntegrityResult(record_id, record.data_hash = provided_hash,
                                     Some(record.data_hash), Some(provided_hash),
                                     Some(record.current_status),
                                     Some(record.last_updated_at), None, now)]

\* ledger_verify_integrity that also stamps the record as updated by the
\* accessor.
ledger_verify_integrity_touch(L, record_id, provided_hash, accessor_id, now) ==
    IF record_id \notin DOMAIN L.records
    THEN [L |-> L, exc |-> NoExc,
          ret |-> IntegrityResult(record_id, FALSE, None, None, None, None,
                                  Some("Record not found on ledger"), now)]
    ELSE LET record == L.records[record_id]
             is_valid == record.data_hash = provided_hash
             out == audited(L,
                            put(L.records, record_id,
                                [record EXCEPT !.last_updated_by = accessor_id,
                                               !.last_updated_at = now]),
                            record_id, accessor_id, "VERIFY",
                            <<"Integrity check: ", IF is_valid THEN "PASSED" ELSE "FAILED">>,
                            now)
         IN [L |-> out.L, exc |-> NoExc,
             ret |-> IntegrityResult(record_id, is_valid, Some(record.data_hash),
                                     Some(provided_hash), Some(record.current_status),
                                     Some(record.last_updated_at), None, now)]

\* ledger_verify_integrity that raises for an absent record, as
\* review_record does.
ledger_verify_integrity_strict(L, record_id, provided_hash, accessor_id, now) ==
    IF record_id \notin DOMAIN L.records
    THEN [L |-> L, exc |-> NotFound, ret |-> NoReturn]
    ELSE LET record == L.records[record_id]
             is_valid == record.data_hash = provided_hash
             out == audited(L, L.records, record_id, accessor_id, "VERIFY",
                            <<"Integrity check: ", IF is_valid THEN "PASSED" ELSE "FAILED">>,
                            now)
         IN [L |-> out.L, exc |-> NoExc,
             ret |-> IntegrityResult(record_id, is_valid, Some(record.data_hash),
                                     Some(provided_hash), Some(record.current_status),
                                     Some(record.last_updated_at), None, now)]

ledger_verify_integrity(L, record_id, provided_hash, accessor_id, now) ==
    IF record_id \notin DOMAIN L.records
    THEN [L |-> L, exc |-> NoExc,
          ret |-> IntegrityResult(record_id, FALSE, None, None, None, None,
                                  Some("Record not found on ledger"), now)]
    ELSE LET record == L.records[record_id]
             is_valid == record.data_hash = provided_hash
             out == audited(L, L.records, record_id, accessor_id, "VERIFY",
                            <<"Integrity check: ", IF is_valid THEN "PASSED" ELSE "FAILED">>,
                            now)
         IN [L |-> out.L, exc |-> NoExc,
             ret |-> IntegrityResult(record_id, is_valid, Some(record.data_hash),
                                     Some(provided_hash), Some(record.current_status),
                                     Some(record.last_updated_at), None, now)]

\* ledger_log_access with the existence check of review_record.
ledger_log_access_checked(L, record_id, accessor_id, reason, now) ==
    IF record_id \notin DOMAIN L.records
    THEN [L |-> L, exc |-> NotFound, ret |-> NoReturn]
    ELSE audited(L, L.records, record_id, accessor_id, "ACCESS", <<reason>>, now)

\* ledger_log_access that returns its transaction id without appending
\* the entry.
ledger_log_access_unlogged(L, record_id, accessor_id, reason, now) ==
    [L |-> [L EXCEPT !.tx_counter = L.tx_counter + 1],
     exc |-> NoExc,
     ret |-> generate_tx_id(L, now)]

ledger_log_access(L, record_id, accessor_id, reason, now) ==
    audited(L, L.records, record_id, accessor_id, "ACCESS", <<reason>>, now)

\* Read operations.
get_record(L, record_id) ==
    IF record_id \in DOMAIN L.records THEN Some(L.records[record_id]) ELSE None

\* get_access_logs that lists the newest entry first.
get_access_logs_newest_first(L, record_id) ==
    LET logs == SelectSeq(L.access_logs, LAMBDA log : log.record_id = record_id)
    IN [i \in DOMAIN logs |-> logs[Len(logs) + 1 - i]]

get_access_logs(L, record_id) ==
    SelectSeq(L.access_logs, LAMBDA log : log.record_id = record_id)

\* What a read hands to its caller.  MockLedger.get_record returns the
\* stored LedgerRecord object and the other reads build a new list of the
\* stored objects: the caller then holds the objects themselves (live),
\* named here by what identifies them for the life of the ledger, the
\* record_id of a record (rids) and the position of a log entry (idxs).
\* asdict() builds new dicts: the caller holds the values (seen) only.
Result(L, live, rids, idxs) ==
    [live |-> live,
     rids |-> rids,
     idxs |-> idxs,
     seen |-> [records |-> [r \in rids |-> L.records[r]],
               logs |-> [i \in idxs |-> L.access_logs[i]]]]

\* No read has been made.
NoResult == [live |-> FALSE, rids |-> {}, idxs |-> {},
             seen |-> [records |-> << >>, logs |-> << >>]]

\* What the holder of result h reads in it when the ledger is L.
View(L, h) ==
    IF h.live
    THEN [records |-> [r \in h.rids |-> L.records[r]],
          logs |-> [i \in h.idxs |-> L.access_logs[i]]]
    ELSE h.seen

\* return self.records.get(record_id)
get_record_result(L, record_id) ==
    Result(L, TRUE, {record_id} \cap DOMAIN L.records, {})

\* return [log for log in self.access_logs if log.record_id == record_id]
get_access_logs_result(L, record_id) ==
    Result(L, TRUE, {}, {i \in 1..Len(L.access_logs) : L.access_logs[i].record_id = record_id})

\* return [r for r in self.records.values() if r.current_status == status]
query_by_status(L, status) ==
    Result(L, TRUE, {r \in DOMAIN L.records : L.records[r].current_status = status}, {})

\* return [r for r in self.records.values() if r.flag_status == flag_status]
query_by_flag_status(L, flag_status) ==
    Result(L, TRUE, {r \in DOMAIN L.records : L.records[r].flag_status = flag_status}, {})

---------------------------------------------------------------------------
(* Inputs.                                                                 *)

Users == {"u1", "u2"}

RecordIds == {"R1", "R2"}

Reasons == {"view"}

Decisions == {"approved", "REJECTED", "PENDING_REVIEW", "pending_review", "bogus"}

\* The instants datetime.now() can return.
Times == {0, 1}

c1 == [record_id |-> PyStr("R1"), household_id |-> PyStr("H1"),
       name |-> PyStr("A"), income |-> PyInt(1000), flag_status |-> PyStr("review")]

c1b == [record_id |-> PyStr("R1"), household_id |-> PyStr("H1"),
        name |-> PyStr("A"), income |-> PyInt(1200), flag_status |-> PyStr("review")]

c2 == [record_id |-> PyStr("R2"), household_id |-> PyStr("H2"),
       name |-> PyStr("B"), flag_status |-> PyStr("urgent"), updated_at |-> PyStr("t0")]

AnchorInputs == {c1, c1b, c2}

\* c1 as a document whose flag_status is null.
cnull == [c1 EXCEPT !.flag_status = PyNone]

UpdatedInputs == {None, Some(EmptyDict), Some(c1b)}

VerifyInputs == {c1, c1b, c2}

\* Records a caller may hold for a stored record: c1 with income given as
\* the string "1000", c1 with a null name, c1 with an empty name, c1
\* without the name key, and the empty record.
c1s == [c1 EXCEPT !.income = PyStr("1000")]

c1n == [c1 EXCEPT !.name = PyNone]

c1e == [c1 EXCEPT !.name = PyStr("")]

c1m == [f \in DOMAIN c1 \ {"name"} |-> c1[f]]

ContentInputs == VerifyInputs \cup {c1s, c1n, c1e, c1m, EmptyDict}

\* datetime.now(): the clock has not advanced since the last reading or has
\* advanced by one tick.
Now == {clock, clock + 1} \cap Times

---------------------------------------------------------------------------
(* BlockchainService.  Like the ledger methods, each facade coroutine maps *)
(* the ledger before the call to the ledger after it, the exception raised *)
(* and the value returned.                                                 *)

\* The facade raised exc before it called the ledger.
Raised(L, exc) == [L |-> L, exc |-> exc, ret |-> NoReturn]

\* The facade's return statement after the ledger call whose outcome is
\* out; an exception of the ledger method propagates to the caller.
Returned(out, ret) ==
    [L |-> out.L, exc |-> out.exc, ret |-> IF out.exc = NoExc THEN ret ELSE NoReturn]

\* record.get('record_id', ''); the ids of the inputs are strings.
record_id_of(record) == Get(record, "record_id", PyStr("")).s

anchor_record(L, record, user_id, now) ==
    LET record_id == record_id_of(record)
        household_id == Get(record, "household_id", PyStr("")).s
        flag_value == Get(record, "flag_status", PyStr("NORMAL"))
        flag_status == IF Upper(flag_value.s) \in FlagStatus
                       THEN Upper(flag_value.s) ELSE "NORMAL"
        data_hash == compute_record_hash(record)
        out == initialize_record(L, record_id, data_hash, household_id,
                                 flag_status, user_id, now)
    IN IF flag_value.t # "str"
       THEN Raised(L, AttributeError)
       ELSE Returned(out, [tx_id |-> out.ret,
                           record_id |-> record_id,
                           data_hash |-> data_hash,
                           status |-> "PENDING_REVIEW",
                           ledger_anchored |-> TRUE])

\* review_record whose valid_decisions does not exclude PENDING_REVIEW.
review_record_any_status(L, record_id, reviewer_id, decision_in, updated_record, now) ==
    LET decision == Upper(decision_in)
        valid_decisions == RecordStatus
        new_hash == IF updated_record # None /\ DOMAIN updated_record[1] # {}
                    THEN Some(compute_record_hash(updated_record[1]))
                    ELSE None
        out == ledger_review_record(L, record_id, reviewer_id, decision, new_hash, now)
    IN IF decision \notin valid_decisions
       THEN Raised(L, InvalidArgument)
       ELSE Returned(out, [tx_id |-> out.ret,
                           record_id |-> record_id,
                           new_status |-> decision,
                           new_hash |-> new_hash])

\* review_record that never hashes updated_record.
review_record_drops_update(L, record_id, reviewer_id, decision_in, updated_record, now) ==
    LET decision == Upper(decision_in)
        valid_decisions == RecordStatus \ {"PENDING_REVIEW"}
        new_hash == None
        out == ledger_review_record(L, record_id, reviewer_id, decision, new_hash, now)
    IN IF decision \notin valid_decisions
       THEN Raised(L, InvalidArgument)
       ELSE Returned(out, [tx_id |-> out.ret,
                           record_id |-> record_id,
                           new_status |-> decision,
                           new_hash |-> new_hash])

\* review_record that validates the upper-cased decision and passes the
\* decision as it was given.
review_record_keeps_case(L, record_id, reviewer_id, decision_in, updated_record, now) ==
    LET decision == Upper(decision_in)
        valid_decisions == RecordStatus \ {"PENDING_REVIEW"}
        new_hash == IF updated_record # None /\ DOMAIN updated_record[1] # {}
                    THEN Some(compute_record_hash(updated_record[1]))
                    ELSE None
        out == ledger_review_record(L, record_id, reviewer_id, decision_in, new_hash, now)
    IN IF decision \notin valid_decisions
       THEN Raised(L, InvalidArgument)
       ELSE Returned(out, [tx_id |-> out.ret,
                           record_id |-> record_id,
                           new_status |-> decision,
                           new_hash |-> new_hash])

\* "if updated_record:" is false for None and for the empty dict.
review_record(L, record_id, reviewer_id, decision_in, updated_record, now) ==
    LET decision == Upper(decision_in)
        valid_decisions == RecordStatus \ {"PENDING_REVIEW"}
        new_hash == IF updated_record # None /\ DOMAIN updated_record[1] # {}
                    THEN Some(compute_record_hash(updated_record[1]))
                    ELSE None
        out == ledger_review_record(L, record_id, reviewer_id, decision, new_hash, now)
    IN IF decision \notin valid_decisions
       THEN Raised(L, InvalidArgument)
       ELSE Returned(out, [tx_id |-> out.ret,
                           record_id |-> record_id,
                           new_status |-> decision,
                           new_hash |-> new_hash])

verify_integrity(L, record_id, record, accessor_id, now) ==
    LET current_hash == compute_record_hash(record)
        out == ledger_verify_integrity(L, record_id, current_hash, accessor_id, now)
    IN Returned(out, out.ret)

log_access(L, record_id, accessor_id, reason, now) ==
    LET out == ledger_log_access(L, record_id, accessor_id, reason, now)
    IN Returned(out, [tx_id |-> out.ret, record_id |-> record_id, logged |-> TRUE])

\* asdict(record) of the record the ledger returned, or None.
get_ledger_record(L, record_id) ==
    Result(L, FALSE, {record_id} \cap DOMAIN L.records, {})

\* [asdict(log) for log in logs]
facade_get_access_logs(L, record_id) ==
    Result(L, FALSE, {}, get_access_logs_result(L, record_id).idxs)

---------------------------------------------------------------------------
(* The service as a state machine: any caller may make any call.           *)

\* The review coroutines that can be in flight.
TaskIds == 1..MaxTasks

\* A coroutine that has not been started.
IdleTask == [pc |-> "idle", reviewer_id |-> "", decision |-> "", updated_record |-> None, exc |-> NoExc, version_read |-> 0]

Init ==
    /\ records = << >>
    /\ access_logs = << >>
    /\ tx_counter = 0
    /\ initialized = FALSE
    /\ clock = 0
    /\ response = [op |-> "none", exc |-> NoExc, ret |-> NoReturn]
    /\ held = NoResult
    /\ tasks = [t \in TaskIds |-> IdleTask]
    /\ hash_arg = << >>
    /\ hash_ret = None

\* One facade call, made at time now, whose outcome is out.  Every public
\* coroutine first awaits initialize(); a call that raises has not read the
\* time.  Calls that would take tx_counter past cap are not explored.
Call(op, out, now, cap) ==
    /\ out.L.tx_counter <= cap
    /\ initialized' = TRUE
    /\ records' = out.L.records
    /\ access_logs' = out.L.access_logs
    /\ tx_counter' = out.L.tx_counter
    /\ clock' = IF out.exc = NoExc THEN now ELSE clock
    /\ response' = [op |-> op, exc |-> out.exc, ret |-> out.ret]
    /\ UNCHANGED <<held, tasks, hash_arg, hash_ret>>

Anchor ==
    \E record \in AnchorInputs, user_id \in Users, now \in Now :
        Call("anchor", anchor_record(Ledger, record, user_id, now), now, MaxTx)

Review ==
    \E record_id \in RecordIds, reviewer_id \in Users, decision \in Decisions,
       updated_record \in UpdatedInputs, now \in Now :
        Call("review", review_record(Ledger, record_id, reviewer_id, decision,
                                     updated_record, now), now, MaxTx)

Verify ==
    \E record_id \in RecordIds, record \in VerifyInputs, accessor_id \in Users,
       now \in Now :
        Call("verify", verify_integrity(Ledger, record_id, record, accessor_id, now),
             now, MaxTx)

LogAccess ==
    \E record_id \in RecordIds, accessor_id \in Users, reason \in Reasons, now \in Now :
        Call("log_access", log_access(Ledger, record_id, accessor_id, reason, now),
             now, MaxTx)

Next == Anchor \/ Review \/ Verify \/ LogAccess

Spec == Init /\ [][Next]_vars

---------------------------------------------------------------------------
(* The history of one record: the same calls, all on R1, followed further. *)

MaxHistory == 3     \* cap on tx_counter in SpecRecord

AnchorOne ==
    \E record \in {c1, cnull}, user_id \in Users, now \in Now :
        Call("anchor", anchor_record(Ledger, record, user_id, now), now, MaxHistory)

ReviewOne ==
    \E reviewer_id \in Users, decision \in Decisions,
       updated_record \in UpdatedInputs, now \in Now :
        Call("review", review_record(Ledger, "R1", reviewer_id, decision,
                                     updated_record, now), now, MaxHistory)

VerifyOne ==
    \E record \in {c1, c1b}, now \in Now :
        Call("verify", verify_integrity(Ledger, "R1", record, "u1", now),
             now, MaxHistory)

LogAccessOne ==
    \E now \in Now :
        Call("log_access", log_access(Ledger, "R1", "u2", "view", now),
             now, MaxHistory)

NextRecord == AnchorOne \/ ReviewOne \/ VerifyOne \/ LogAccessOne

SpecRecord == Init /\ [][NextRecord]_vars

---------------------------------------------------------------------------
(* Reviews in flight together.  A coroutine can give way to another one    *)
(* only where it awaits.  review_record awaits initialize() and then, after *)
(* validating the decision and hashing updated_record (both on its own     *)
(* arguments), the ledger's review_record, which contains no await: the    *)
(* model lets the other coroutines run between the two awaits, and runs    *)
(* the body of the ledger method as one step.                              *)

TaskDecisions == {"approved", "REJECTED", "bogus"}

TaskUpdates == {None, Some(c1b)}

\* The caller of coroutine t.
reviewer_of(t) == IF t = 1 THEN "u1" ELSE "u2"

\* review_record(R1, ...) is called and runs through "await self.initialize()".
ReviewEnter(t) ==
    /\ tasks[t].pc = "idle"
    /\ \E decision \in TaskDecisions, updated_record \in TaskUpdates :
            tasks' = [tasks EXCEPT ![t] = [pc |-> "entered",
                                           reviewer_id |-> reviewer_of(t),
                                           decision |-> decision,
                                           updated_record |-> updated_record,
                                           exc |-> NoExc,
                                           version_read |-> 0]]
    /\ initialized' = TRUE
    /\ UNCHANGED <<records, access_logs, tx_counter, clock, response, held, hash_arg, hash_ret>>

\* The rest of the coroutine: validation, hash, the ledger call and the
\* return.  version_read is the version that "record.version += 1" read.
ReviewRun(t) ==
    /\ tasks[t].pc = "entered"
    /\ \E now \in Now :
        LET out == review_record(Ledger, "R1", tasks[t].reviewer_id, tasks[t].decision,
                                 tasks[t].updated_record, now)
        IN /\ records' = out.L.records
           /\ access_logs' = out.L.access_logs
           /\ tx_counter' = out.L.tx_counter
           /\ clock' = IF out.exc = NoExc THEN now ELSE clock
           /\ response' = [op |-> "review", exc |-> out.exc, ret |-> out.ret]
           /\ tasks' = [tasks EXCEPT ![t].pc = "done",
                                     ![t].exc = out.exc,
                                     ![t].version_read = IF out.exc = NoExc
                                                         THEN records["R1"].version
                                                         ELSE 0]
    /\ UNCHANGED <<initialized, held, hash_arg, hash_ret>>

\* The record is anchored before, between or after the reviews.
AnchorAmong ==
    \E now \in Now :
        Call("anchor", anchor_record(Ledger, c1, "u1", now), now, MaxTasks + 1)

NextConcurrent ==
    \/ AnchorAmong
    \/ \E t \in TaskIds : ReviewEnter(t)
    \/ \E t \in TaskIds : ReviewRun(t)

SpecConcurrent == Init /\ [][NextConcurrent]_vars

---------------------------------------------------------------------------
(* compute_record_hash on its own: a caller hashes a record, and the same  *)
(* logical record reaches it with its keys in another order.               *)

\* The items of a record.
ItemsOf(record) == {<<key, record[key]>> : key \in DOMAIN record}

\* The orders in which a set of items can have been inserted.
Orderings(S) ==
    {items \in [1..Cardinality(S) -> S] :
        \A i, j \in 1..Cardinality(S) : i # j => items[i] # items[j]}

\* Records handed to the hasher: c1n has a null value, c2 a key outside the
\* allow-list.
HashRecords == {c1n, c2}

InitHash ==
    /\ records = << >>
    /\ access_logs = << >>
    /\ tx_counter = 0
    /\ initialized = FALSE
    /\ clock = 0
    /\ response = [op |-> "none", exc |-> NoExc, ret |-> NoReturn]
    /\ held = NoResult
    /\ tasks = [t \in TaskIds |-> IdleTask]
    /\ hash_arg \in UNION {Orderings(ItemsOf(record)) : record \in HashRecords}
    /\ hash_ret = None

\* compute_record_hash(hash_arg)
ComputeHash ==
    /\ hash_ret' = Some(compute_record_hash_items(hash_arg))
    /\ response' = [op |-> "compute_record_hash", exc |-> NoExc, ret |-> hash_ret'[1]]
    /\ UNCHANGED <<records, access_logs, tx_counter, initialized, clock, held, tasks, hash_arg>>

\* The record is rebuilt with its keys inserted in another order.
ReorderKeys ==
    /\ hash_arg' \in Orderings({hash_arg[i] : i \in DOMAIN hash_arg}) \ {hash_arg}
    /\ response' = [op |-> "reorder", exc |-> NoExc, ret |-> NoReturn]
    /\ UNCHANGED <<records, access_logs, tx_counter, initialized, clock, held, tasks, hash_ret>>

NextHash == ComputeHash \/ ReorderKeys

SpecHash == InitHash /\ [][NextHash]_vars

---------------------------------------------------------------------------
(* compute_record_hash between two versions of a record: the caller        *)
(* changes one field of the record in place, adds a key or deletes one,    *)
(* and hashes the record again.                                            *)

\* record[key] = value
SetItem(items, key, value) ==
    IF key \in Keys(items)
    THEN [i \in DOMAIN items |-> IF items[i][1] = key THEN <<key, value>> ELSE items[i]]
    ELSE Append(items, <<key, value>>)

\* del record[key]
DelItem(items, key) == SelectSeq(items, LAMBDA item : item[1] # key)

\* The record as the sequence of its items, keys inserted in this order.
ItemsIn(record, order) == [i \in DOMAIN order |-> <<order[i], record[order[i]]>>]

\* Values a caller gives an allow-listed field: a string, null, the empty
\* string, a number as int and as float and the decimal string of it.
FieldValues(key) ==
    CASE key = "name" -> {PyStr("A"), PyStr("B"), PyNone, PyStr("")}
      [] key = "income" -> {PyInt(1000), PyStr("1000"), PyFloat(1000), PyInt(1200)}
      [] OTHER -> {}

\* Keys outside the allow-list, and the values a caller gives them.
OtherKeys == {"flag_status", "updated_at"}

OtherValues == {PyStr("review"), PyStr("t1"), PyNone}

InitFields ==
    /\ records = << >>
    /\ access_logs = << >>
    /\ tx_counter = 0
    /\ initialized = FALSE
    /\ clock = 0
    /\ response = [op |-> "none", exc |-> NoExc, ret |-> NoReturn]
    /\ held = NoResult
    /\ tasks = [t \in TaskIds |-> IdleTask]
    /\ hash_arg \in {ItemsIn(c1n, <<"record_id", "household_id", "name", "income", "flag_status">>),
                     ItemsIn(c2, <<"record_id", "household_id", "name", "flag_status", "updated_at">>)}
    /\ hash_ret = None

\* The caller's change of the record between two calls of the hasher.
Edit(op, items) ==
    /\ hash_arg' = items
    /\ hash_arg' # hash_arg
    /\ response' = [op |-> op, exc |-> NoExc, ret |-> NoReturn]
    /\ UNCHANGED <<records, access_logs, tx_counter, initialized, clock, held, tasks, hash_ret>>

ChangeListed ==
    \E key \in Keys(hash_arg) \cap hashable_fields : \E value \in FieldValues(key) :
        Edit("change_listed", SetItem(hash_arg, key, value))

ChangeOther ==
    \E key \in Keys(hash_arg) \ hashable_fields : \E value \in OtherValues :
        Edit("change_other", SetItem(hash_arg, key, value))

AddOther ==
    \E key \in OtherKeys \ Keys(hash_arg) : \E value \in OtherValues :
        Edit("add_other", SetItem(hash_arg, key, value))

RemoveOther ==
    \E key \in Keys(hash_arg) \ hashable_fields :
        Edit("remove_other", DelItem(hash_arg, key))

NextFields == ComputeHash \/ ChangeListed \/ ChangeOther \/ AddOther \/ RemoveOther

SpecFields == InitFields /\ [][NextFields]_vars

\* The same record with an allow-listed field more or less: the caller adds
\* the field, with a value or with null, or deletes it.
AddListed ==
    \E key \in {"name", "income"} \ Keys(hash_arg) : \E value \in FieldValues(key) :
        Edit("add_listed", SetItem(hash_arg, key, value))

RemoveListed ==
    \E key \in Keys(hash_arg) \cap {"name", "income"} :
        Edit("remove_listed", DelItem(hash_arg, key))

NextPresence == ComputeHash \/ AddListed \/ RemoveListed

SpecPresence == InitFields /\ [][NextPresence]_vars

---------------------------------------------------------------------------
(* MockLedger called directly.  The class and the facade's attribute       *)
(* "ledger" are public: a caller can reach the ledger methods without the  *)
(* checks of the facade, and keeps what a read returned to it.             *)

\* Status strings a direct caller passes to MockLedger.review_record.
StoreStatuses == {"APPROVED", "PENDING_REVIEW", "bogus"}

\* new_hash arguments of a direct call.
StoreHashes == {None, Some(compute_record_hash(c1b))}

\* One call of a MockLedger method that writes, with outcome out.
StoreCall(op, out, now, cap) ==
    /\ out.L.tx_counter <= cap
    /\ records' = out.L.records
    /\ access_logs' = out.L.access_logs
    /\ tx_counter' = out.L.tx_counter
    /\ clock' = IF out.exc = NoExc THEN now ELSE clock
    /\ response' = [op |-> op, exc |-> out.exc, ret |-> out.ret]
    /\ UNCHANGED <<initialized, held, tasks, hash_arg, hash_ret>>

\* One read, by MockLedger or by the facade, whose result is h.
ReadCall(op, h, init) ==
    /\ held' = h
    /\ initialized' = init
    /\ response' = [op |-> op, exc |-> NoExc, ret |-> h.seen]
    /\ UNCHANGED <<records, access_logs, tx_counter, clock, tasks, hash_arg, hash_ret>>

StoreInitialize ==
    \E record \in {c1}, now \in Now :
        StoreCall("initialize_record",
                  initialize_record(Ledger, record_id_of(record), compute_record_hash(record),
                                    record.household_id.s, "NORMAL", "u1", now),
                  now, MaxStoreTx)

StoreReview ==
    \E record_id \in RecordIds, decision \in StoreStatuses, new_hash \in StoreHashes,
       now \in Now :
        StoreCall("review_record",
                  ledger_review_record(Ledger, record_id, "u2", decision, new_hash, now),
                  now, MaxStoreTx)

StoreGetRecord ==
    \E record_id \in RecordIds :
        ReadCall("get_record", get_record_result(Ledger, record_id), initialized)

StoreGetAccessLogs ==
    \E record_id \in RecordIds :
        ReadCall("get_access_logs", get_access_logs_result(Ledger, record_id), initialized)

StoreQueryByStatus ==
    \E status \in {"PENDING_REVIEW", "APPROVED"} :
        ReadCall("query_by_status", query_by_status(Ledger, status), initialized)

StoreQueryByFlagStatus ==
    ReadCall("query_by_flag_status", query_by_flag_status(Ledger, "NORMAL"), initialized)

GetLedgerRecord ==
    \E record_id \in RecordIds :
        ReadCall("get_ledger_record", get_ledger_record(Ledger, record_id), TRUE)

GetAccessLogs ==
    \E record_id \in RecordIds :
        ReadCall("facade_get_access_logs", facade_get_access_logs(Ledger, record_id), TRUE)

\* The holder of a result assigns to a field of an object in it: to the
\* stored object when the result is live, to its own copy otherwise.
CallerModify ==
    /\ \/ \E r \in held.rids :
            /\ held' = [held EXCEPT !.seen.records[r].last_updated_by = "caller"]
            /\ records' = IF held.live
                           THEN [records EXCEPT ![r].last_updated_by = "caller"]
                           ELSE records
            /\ UNCHANGED access_logs
       \/ \E i \in held.idxs :
            /\ held' = [held EXCEPT !.seen.logs[i].accessor_id = "caller"]
            /\ access_logs' = IF held.live
                               THEN [access_logs EXCEPT ![i].accessor_id = "caller"]
                               ELSE access_logs
            /\ UNCHANGED records
    /\ response' = [op |-> "caller_modify", exc |-> NoExc, ret |-> NoReturn]
    /\ UNCHANGED <<tx_counter, initialized, clock, tasks, hash_arg, hash_ret>>

NextStore ==
    \/ StoreInitialize
    \/ StoreReview
    \/ StoreGetRecord
    \/ StoreGetAccessLogs
    \/ StoreQueryByStatus
    \/ StoreQueryByFlagStatus
    \/ GetLedgerRecord
    \/ GetAccessLogs
    \/ CallerModify

SpecStore == Init /\ [][NextStore]_vars

---------------------------------------------------------------------------
(* One record reviewed again and again, with every decision the facade     *)
(* accepts.                                                                *)

AnchorOnce ==
    \E now \in Now :
        Call("anchor", anchor_record(Ledger, c1, "u1", now), now, MaxHistory)

ReviewAgain ==
    \E reviewer_id \in Users, decision \in RecordStatus \ {"PENDING_REVIEW"}, now \in Now :
        Call("review", review_record(Ledger, "R1", reviewer_id, decision, None, now),
             now, MaxHistory)

NextReviews == AnchorOnce \/ ReviewAgain

SpecReviews == Init /\ [][NextReviews]_vars

---------------------------------------------------------------------------
(* The coroutines statement by statement.  Callers start anchor_record,    *)
(* review_record and the reads of R1 concurrently.  A coroutine gives way  *)
(* to the others only where it awaits something that suspends: as in       *)
(* SpecConcurrent the others may run at "await self.initialize()", and     *)
(* they may not run inside the body of a MockLedger method, which contains *)
(* no await.                                                               *)

\* Running for a review_record that awaits something that suspends after
\* it has updated the record and before it appends the audit entry.
Running_until_update == {"absent", "stored", "found"}

\* Positions inside the body of a MockLedger method: after its existence
\* check and before its return.
Running == {"absent", "stored", "found", "updated", "rehashed"}

\* An event loop that switches coroutines between any two statements.
Scheduled_preemptive(t) == TRUE

\* The event loop runs the next statement of t unless another coroutine is
\* inside a body, which it leaves only by returning.
Scheduled(t) == \A u \in TaskIds \ {t} : tasks[u].pc \notin Running

\* A coroutine: its position, the call, the record passed, the time it
\* read, and what it raised or returned.
StepTask(pc, call, arg, now, exc, ret) == [pc |-> pc, call |-> call, arg |-> arg, now |-> now, exc |-> exc, ret |-> ret]

\* The record that caller t anchors and the decision it gives in a review.
data_of(t) == IF t = 1 THEN c1 ELSE c1b

decision_of(t) == IF t = 1 THEN "approved" ELSE "REJECTED"

\* MockLedger() as constructed.
NewLedger == [records |-> << >>, access_logs |-> << >>, tx_counter |-> 0]

InitSteps ==
    /\ records = << >>
    /\ access_logs = << >>
    /\ tx_counter = 0
    /\ initialized = FALSE
    /\ clock = 0
    /\ response = [op |-> "none", exc |-> NoExc, ret |-> NoReturn]
    /\ held = NoResult
    /\ tasks = [t \in TaskIds |-> StepTask("idle", "", None, 0, NoExc, NoReturn)]
    /\ hash_arg = << >>
    /\ hash_ret = None

\* A call is made and runs through "await self.initialize()".  A caller
\* makes one call, or anchors and then makes one more call.
Await(t, call, arg) ==
    /\ \/ tasks[t].pc = "idle"
       \/ tasks[t].pc = "done" /\ tasks[t].call = "anchor" /\ call # "anchor"
    /\ tasks' = [tasks EXCEPT ![t] = StepTask("entered", call, arg, 0, NoExc, NoReturn)]
    /\ initialized' = TRUE
    /\ UNCHANGED <<records, access_logs, tx_counter, clock, response, held, hash_arg, hash_ret>>

\* The call of t returns ret or raises exc.
Finish(t, op, exc, ret) ==
    /\ tasks' = [tasks EXCEPT ![t].pc = "done", ![t].exc = exc, ![t].ret = ret]
    /\ response' = [op |-> op, exc |-> exc, ret |-> ret]

\* if record_id in self.records
exists_never(recs, record_id) == FALSE

exists(recs, record_id) == record_id \in DOMAIN recs

CreateCall(t) == Await(t, "anchor", Some(data_of(t)))

\* if record_id in self.records: raise ValueError
CreateExists(t) ==
    /\ tasks[t].pc = "entered"
    /\ tasks[t].call = "anchor"
    /\ Scheduled(t)
    /\ IF exists(records, record_id_of(tasks[t].arg[1]))
       THEN Finish(t, "anchor", AlreadyExists, NoReturn)
       ELSE /\ tasks' = [tasks EXCEPT ![t].pc = "absent"]
            /\ UNCHANGED response
    /\ UNCHANGED <<records, access_logs, tx_counter, initialized, clock, held, hash_arg, hash_ret>>

\* now = ...; self.records[record_id] = LedgerRecord(...)
CreateStore(t) ==
    /\ tasks[t].pc = "absent"
    /\ Scheduled(t)
    /\ \E now \in Now :
        LET record_id == record_id_of(tasks[t].arg[1])
            made == anchor_record(NewLedger, tasks[t].arg[1], reviewer_of(t), now).L.records[record_id]
        IN /\ records' = put(records, record_id, made)
           /\ clock' = now
           /\ tasks' = [tasks EXCEPT ![t].pc = "stored", ![t].now = now]
    /\ UNCHANGED <<access_logs, tx_counter, initialized, response, held, hash_arg, hash_ret>>

\* tx_id = self._generate_tx_id(); self.access_logs.append(...); return
CreateLog(t) ==
    /\ tasks[t].pc = "stored"
    /\ Scheduled(t)
    /\ LET record_id == record_id_of(tasks[t].arg[1])
           out == audited(Ledger, records, record_id, reviewer_of(t), "INITIALIZE",
                          <<"Record initialized on ledger">>, tasks[t].now)
       IN /\ access_logs' = out.L.access_logs
          /\ tx_counter' = out.L.tx_counter
          /\ Finish(t, "anchor", NoExc, out.ret)
    /\ UNCHANGED <<records, initialized, clock, held, hash_arg, hash_ret>>

ReviewCall(t) == \E updated_record \in TaskUpdates : Await(t, "review", updated_record)

\* if record_id not in self.records: raise ValueError;
\* record = self.records[record_id]
ReviewFind(t) ==
    /\ tasks[t].pc = "entered"
    /\ tasks[t].call = "review"
    /\ Scheduled(t)
    /\ IF exists(records, "R1")
       THEN /\ tasks' = [tasks EXCEPT ![t].pc = "found"]
            /\ UNCHANGED response
       ELSE Finish(t, "review", NotFound, NoReturn)
    /\ UNCHANGED <<records, access_logs, tx_counter, initialized, clock, held, hash_arg, hash_ret>>

\* now = ...; record.current_status = decision; record.last_updated_by =
\* reviewer_id; record.last_updated_at = now; record.version += 1
ReviewUpdate(t) ==
    /\ tasks[t].pc = "found"
    /\ Scheduled(t)
    /\ \E now \in Now :
        /\ records' = put(records, "R1",
                          reviewed(records["R1"], reviewer_of(t), Upper(decision_of(t)), None, now))
        /\ clock' = now
        /\ tasks' = [tasks EXCEPT ![t].pc = "updated", ![t].now = now]
    /\ UNCHANGED <<access_logs, tx_counter, initialized, response, held, hash_arg, hash_ret>>

\* if new_hash: record.previous_hash = record.data_hash;
\* record.data_hash = new_hash
ReviewRehash(t) ==
    /\ tasks[t].pc = "updated"
    /\ Scheduled(t)
    /\ records' = IF tasks[t].arg # None
                  THEN put(records, "R1",
                           [records["R1"] EXCEPT !.previous_hash = Some(records["R1"].data_hash),
                                                 !.data_hash = compute_record_hash(tasks[t].arg[1])])
                  ELSE records
    /\ tasks' = [tasks EXCEPT ![t].pc = "rehashed"]
    /\ UNCHANGED <<access_logs, tx_counter, initialized, clock, response, held, hash_arg, hash_ret>>

\* tx_id = self._generate_tx_id(); self.access_logs.append(...); return
ReviewLog(t) ==
    /\ tasks[t].pc = "rehashed"
    /\ Scheduled(t)
    /\ LET out == audited(Ledger, records, "R1", reviewer_of(t), "REVIEW",
                          <<"Decision: ", Upper(decision_of(t))>>, tasks[t].now)
       IN /\ access_logs' = out.L.access_logs
          /\ tx_counter' = out.L.tx_counter
          /\ Finish(t, "review", NoExc, out.ret)
    /\ UNCHANGED <<records, initialized, clock, held, hash_arg, hash_ret>>

\* get_ledger_record(R1) or get_access_logs(R1) is called.
ReadAwait(t) == \E call \in {"get_ledger_record", "get_access_logs"} : Await(t, call, None)

\* The read itself: the ledger method and the asdict copies.
ReadReturn(t) ==
    /\ tasks[t].pc = "entered"
    /\ tasks[t].call \in {"get_ledger_record", "get_access_logs"}
    /\ Scheduled(t)
    /\ held' = IF tasks[t].call = "get_ledger_record"
               THEN get_ledger_record(Ledger, "R1")
               ELSE facade_get_access_logs(Ledger, "R1")
    /\ Finish(t, tasks[t].call, NoExc, held'.seen)
    /\ UNCHANGED <<records, access_logs, tx_counter, initialized, clock, hash_arg, hash_ret>>

NextSteps ==
    \/ \E t \in TaskIds : CreateCall(t)
    \/ \E t \in TaskIds : CreateExists(t)
    \/ \E t \in TaskIds : CreateStore(t)
    \/ \E t \in TaskIds : CreateLog(t)
    \/ \E t \in TaskIds : ReviewCall(t)
    \/ \E t \in TaskIds : ReviewFind(t)
    \/ \E t \in TaskIds : ReviewUpdate(t)
    \/ \E t \in TaskIds : ReviewRehash(t)
    \/ \E t \in TaskIds : ReviewLog(t)
    \/ \E t \in TaskIds : ReadAwait(t)
    \/ \E t \in TaskIds : ReadReturn(t)

SpecSteps == InitSteps /\ [][NextSteps]_vars

---------------------------------------------------------------------------
(* Properties of the ledger, one per claim.  An invariant of the form      *)
(* "\A inputs : ..." says of every reachable ledger what every call that   *)
(* can be made on it does.                                                 *)

C2_AnchorFresh ==
    \A record \in AnchorInputs, user_id \in Users, now \in Now :
        record_id_of(record) \notin DOMAIN records =>
            LET out == anchor_record(Ledger, record, user_id, now)
                rid == record_id_of(record)
                logs == out.L.access_logs
            IN /\ out.exc = NoExc
               /\ DOMAIN out.L.records = DOMAIN records \cup {rid}
               /\ out.L.records[rid].record_id = rid
               /\ out.L.records[rid].version = 1
               /\ out.L.records[rid].current_status = "PENDING_REVIEW"
               /\ out.L.records[rid].previous_hash = None
               /\ out.L.records[rid].created_at = out.L.records[rid].last_updated_at
               /\ out.L.records[rid].created_by = user_id
               /\ out.L.records[rid].last_updated_by = user_id
               /\ Len(logs) = Len(access_logs) + 1
               /\ SubSeq(logs, 1, Len(access_logs)) = access_logs
               /\ logs[Len(logs)].action_type = "INITIALIZE"
               /\ logs[Len(logs)].record_id = rid
               /\ out.ret.tx_id = logs[Len(logs)].tx_id
               /\ out.ret.tx_id.n = tx_counter + 1

\* A second record has just been anchored.
C2_Witness ==
    /\ response.op = "anchor"
    /\ response.exc = NoExc
    /\ Len(access_logs) = 2
    /\ access_logs[2].action_type = "INITIALIZE"
    /\ access_logs[2].tx_id = response.ret.tx_id

\* C3: a stored record that has been anchored and then reviewed N times
\* has version 1 + N, and the INITIALIZE and REVIEW entries of its audit
\* trail are one INITIALIZE entry followed by N REVIEW entries, in the
\* order of the calls (the transaction counter numbers the calls).
C3_VersionCountsReviews ==
    \A r \in DOMAIN records :
        LET trail == get_access_logs(Ledger, r)
            made == SelectSeq(trail,
                        LAMBDA e : e.action_type \in {"INITIALIZE", "REVIEW"})
        IN /\ records[r].version = Len(made)
           /\ made[1].action_type = "INITIALIZE"
           /\ \A i \in 2..Len(made) : made[i].action_type = "REVIEW"
           /\ \A i, j \in 1..Len(made) : i < j => made[i].tx_id.n < made[j].tx_id.n

\* A record has been anchored and reviewed twice.
C3_Witness ==
    /\ "R1" \in DOMAIN records
    /\ records["R1"].version = 3
    /\ Len(get_access_logs(Ledger, "R1")) = 3

\* C4: a facade review whose upper-cased decision is PENDING_REVIEW or is
\* none of APPROVED, REJECTED, NEEDS_VERIFICATION, PRIORITY raises the
\* invalid-decision error and leaves the records, the audit log and the
\* transaction counter as they were, whether or not the record_id exists.
C4_InvalidDecisionHasNoEffect ==
    \A record_id \in RecordIds, reviewer_id \in Users, decision \in Decisions,
       updated_record \in UpdatedInputs, now \in Now :
        (\/ Upper(decision) = "PENDING_REVIEW"
         \/ Upper(decision) \notin {"APPROVED", "REJECTED", "NEEDS_VERIFICATION", "PRIORITY"})
        => LET out == review_record(Ledger, record_id, reviewer_id, decision,
                                    updated_record, now)
           IN /\ out.exc = InvalidArgument
              /\ out.ret = NoReturn
              /\ out.L.records = records
              /\ out.L.access_logs = access_logs
              /\ out.L.tx_counter = tx_counter

\* A review has just been refused in a ledger where one of the two record
\* ids exists and the other does not.
C4_Witness ==
    /\ response.op = "review"
    /\ response.exc = InvalidArgument
    /\ DOMAIN records = {"R1"}

\* C5: a verify call on a record_id that is absent returns verified = false
\* with an error and appends exactly one VERIFY entry for that record_id.
C5_VerifyAbsentIsAudited ==
    [][(response'.op = "verify" /\ response'.ret.record_id \notin DOMAIN records)
        => /\ response'.ret.verified = FALSE
           /\ response'.ret.error # None
           /\ Len(access_logs') = Len(access_logs) + 1
           /\ access_logs'[Len(access_logs')].action_type = "VERIFY"
           /\ access_logs'[Len(access_logs')].record_id = response'.ret.record_id]_vars

\* C6: every anchor and review that succeeds, every verify of an existing
\* record and every log_access appends exactly one entry to the audit log;
\* the entry carries the call's record_id, its actor as accessor_id and the
\* action type INITIALIZE, REVIEW, VERIFY or ACCESS respectively.
C6_OneAuditEntryPerOperation ==
    LET AppendsOne(out, record_id, actor, action_type) ==
            /\ Len(out.L.access_logs) = Len(access_logs) + 1
            /\ SubSeq(out.L.access_logs, 1, Len(access_logs)) = access_logs
            /\ out.L.access_logs[Len(access_logs) + 1].record_id = record_id
            /\ out.L.access_logs[Len(access_logs) + 1].accessor_id = actor
            /\ out.L.access_logs[Len(access_logs) + 1].action_type = action_type
    IN /\ \A record \in AnchorInputs, user_id \in Users, now \in Now :
            LET out == anchor_record(Ledger, record, user_id, now)
            IN out.exc = NoExc
                => AppendsOne(out, record_id_of(record), user_id, "INITIALIZE")
       /\ \A record_id \in RecordIds, reviewer_id \in Users, decision \in Decisions,
             updated_record \in UpdatedInputs, now \in Now :
            LET out == review_record(Ledger, record_id, reviewer_id, decision,
                                     updated_record, now)
            IN out.exc = NoExc => AppendsOne(out, record_id, reviewer_id, "REVIEW")
       /\ \A record_id \in RecordIds, record \in VerifyInputs, accessor_id \in Users,
             now \in Now :
            LET out == verify_integrity(Ledger, record_id, record, accessor_id, now)
            IN record_id \in DOMAIN records
                => AppendsOne(out, record_id, accessor_id, "VERIFY")
       /\ \A record_id \in RecordIds, accessor_id \in Users, reason \in Reasons,
             now \in Now :
            LET out == log_access(Ledger, record_id, accessor_id, reason, now)
            IN AppendsOne(out, record_id, accessor_id, "ACCESS")

\* An existing record has just been verified after the call that created it.
C6_Witness ==
    /\ response.op = "verify"
    /\ response.ret.error = None
    /\ Len(access_logs) = 2
    /\ access_logs[1].action_type = "INITIALIZE"
    /\ access_logs[2].action_type = "VERIFY"

\* C7: the audit log is append-only: in every step the log before the step
\* is a prefix of the log after it.
C7_AuditLogAppendOnly ==
    [][/\ Len(access_logs') >= Len(access_logs)
       /\ SubSeq(access_logs', 1, Len(access_logs)) = access_logs]_vars

\* The log holds entries of two operations.
C7_Witness ==
    /\ Len(access_logs) = 2
    /\ access_logs[1].action_type # access_logs[2].action_type

\* C8: a verify call never changes the stored records: for every
\* record_id, provided record and actor the map of records after the call
\* equals the map before it.
C8_VerifyLeavesRecords ==
    \A record_id \in RecordIds, record \in VerifyInputs, accessor_id \in Users,
       now \in Now :
        verify_integrity(Ledger, record_id, record, accessor_id, now).L.records = records

\* An existing record has just been verified against content it does not
\* hold.
C8_Witness ==
    /\ response.op = "verify"
    /\ response.ret.error = None
    /\ response.ret.verified = FALSE
    /\ response.ret.record_id \in DOMAIN records

\* C9: log_access on a record_id that is not in the ledger succeeds: it
\* returns a transaction id, appends exactly one ACCESS entry that carries
\* the record_id and that transaction id, and leaves the records as they
\* were (none is created, none changes).
C9_LogAccessOnAbsentRecord ==
    \A record_id \in RecordIds, accessor_id \in Users, reason \in Reasons, now \in Now :
        record_id \notin DOMAIN records =>
            LET out == log_access(Ledger, record_id, accessor_id, reason, now)
                logs == out.L.access_logs
            IN /\ out.exc = NoExc
               /\ out.ret.tx_id.n = tx_counter + 1
               /\ Len(logs) = Len(access_logs) + 1
               /\ SubSeq(logs, 1, Len(access_logs)) = access_logs
               /\ logs[Len(logs)].action_type = "ACCESS"
               /\ logs[Len(logs)].record_id = record_id
               /\ logs[Len(logs)].tx_id = out.ret.tx_id
               /\ out.L.records = records

\* Access to a record that is not in the ledger has just been logged, next
\* to a record that is.
C9_Witness ==
    /\ response.op = "log_access"
    /\ response.exc = NoExc
    /\ response.ret.record_id \notin DOMAIN records
    /\ DOMAIN records # {}
    /\ access_logs[Len(access_logs)].record_id = response.ret.record_id

\* C10: a review that succeeds on an existing record increments version by
\* exactly 1; when the facade passes a new hash, previous_hash becomes the
\* data_hash held before the call and data_hash becomes the new hash; when
\* it passes none, data_hash and previous_hash are unchanged.
C10_ReviewChainsHash ==
    \A record_id \in RecordIds, reviewer_id \in Users, decision \in Decisions,
       updated_record \in UpdatedInputs, now \in Now :
        LET out == review_record(Ledger, record_id, reviewer_id, decision,
                                 updated_record, now)
        IN out.exc = NoExc =>
            LET old == records[record_id]
                new == out.L.records[record_id]
            IN /\ new.version = old.version + 1
               /\ out.ret.new_hash # None =>
                    /\ new.previous_hash = Some(old.data_hash)
                    /\ new.data_hash = out.ret.new_hash[1]
               /\ out.ret.new_hash = None =>
                    /\ new.previous_hash = old.previous_hash
                    /\ new.data_hash = old.data_hash

\* A review without a new hash has just followed a review with one.
C10_Witness ==
    /\ response.op = "review"
    /\ response.exc = NoExc
    /\ response.ret.new_hash = None
    /\ records["R1"].version = 3
    /\ records["R1"].previous_hash # None
    /\ records["R1"].previous_hash # Some(records["R1"].data_hash)

\* C11: PENDING_REVIEW is reachable only through creation: MockLedger's
\* review_record refuses a new status that is PENDING_REVIEW or is none of
\* APPROVED, REJECTED, NEEDS_VERIFICATION, PRIORITY, so that every stored
\* record has one of the five RecordStatus values as current_status and no
\* record with version above 1 is PENDING_REVIEW.
C11_PendingReviewOnlyViaCreate ==
    /\ \A record_id \in RecordIds, decision \in StoreStatuses, new_hash \in StoreHashes,
          now \in Now :
            decision \notin RecordStatus \ {"PENDING_REVIEW"}
                => ledger_review_record(Ledger, record_id, "u2", decision, new_hash,
                                        now).exc # NoExc
    /\ \A r \in DOMAIN records :
            /\ records[r].current_status \in RecordStatus
            /\ records[r].version > 1 => records[r].current_status # "PENDING_REVIEW"

\* C15: what a MockLedger read (get_record, query_by_status,
\* query_by_flag_status, get_access_logs) returned is a snapshot: whatever
\* the ledger does afterwards, the holder of the result reads in it what it
\* read when the call returned, and an assignment of the holder to a field
\* of a returned object leaves the stored records and the audit log as they
\* were.
C15_ReadsReturnSnapshots ==
    /\ [](View(Ledger, held) = held.seen)
    /\ [][response'.op = "caller_modify"
            => records' = records /\ access_logs' = access_logs]_vars

\* C12: however the steps of review coroutines on one record_id
\* interleave, no update is lost: two accepted reviews never read the same
\* version, and the stored version is 1 + the number of accepted reviews
\* (no review is accepted while the record is absent).
C12_NoLostUpdate ==
    LET accepted == {t \in TaskIds : tasks[t].pc = "done" /\ tasks[t].exc = NoExc}
    IN /\ \A t, u \in accepted : t # u => tasks[t].version_read # tasks[u].version_read
       /\ "R1" \in DOMAIN records => records["R1"].version = 1 + Cardinality(accepted)
       /\ "R1" \notin DOMAIN records => accepted = {}

\* Two reviews were in flight together and both were accepted, the one
\* started second first.
C12_Witness ==
    /\ tasks[1].pc = "done" /\ tasks[1].exc = NoExc /\ tasks[1].version_read = 2
    /\ tasks[2].pc = "done" /\ tasks[2].exc = NoExc /\ tasks[2].version_read = 1
    /\ records["R1"].version = 3

\* C13: a review with a valid decision on a record_id that is absent
\* raises the not-found error, from the ledger method and so from the
\* facade, and has no effect: the records (none created, none changed), the
\* audit log and the transaction counter are as before the call.
C13_ReviewAbsentHasNoEffect ==
    \A record_id \in RecordIds, reviewer_id \in Users, decision \in Decisions,
       updated_record \in UpdatedInputs, now \in Now :
        (record_id \notin DOMAIN records
            /\ Upper(decision) \in RecordStatus \ {"PENDING_REVIEW"})
        => LET out == review_record(Ledger, record_id, reviewer_id, decision,
                                    updated_record, now)
               direct == ledger_review_record(Ledger, record_id, reviewer_id,
                                              Upper(decision), None, now)
           IN /\ out.exc = NotFound
              /\ out.ret = NoReturn
              /\ out.L.records = records
              /\ out.L.access_logs = access_logs
              /\ out.L.tx_counter = tx_counter
              /\ direct.exc = NotFound
              /\ direct.L = Ledger

\* A review of an absent record has just failed next to a record that
\* exists and has an audit entry.
C13_Witness ==
    /\ response.op = "review"
    /\ response.exc = NotFound
    /\ DOMAIN records = {"R1"}
    /\ Len(access_logs) >= 1

\* C14: transaction ids are unique: no two audit entries carry the same
\* tx_id; in every step the transaction counter stays or grows by exactly
\* 1, it grows whenever an entry is appended, and a call that returns a
\* transaction id returns the id made from the new counter value, which is
\* the id of the entry it appended (so no two calls return the same id).
C14_TxIdsUnique ==
    /\ [](\A i, j \in 1..Len(access_logs) :
            i # j => access_logs[i].tx_id # access_logs[j].tx_id)
    /\ [][/\ tx_counter' \in {tx_counter, tx_counter + 1}
          /\ Len(access_logs') > Len(access_logs) =>
               /\ tx_counter' = tx_counter + 1
               /\ access_logs'[Len(access_logs')].tx_id.n = tx_counter'
          /\ (response'.exc = NoExc /\ response'.op \in {"anchor", "review", "log_access"}) =>
               /\ response'.ret.tx_id.n = tx_counter + 1
               /\ response'.ret.tx_id = access_logs'[Len(access_logs')].tx_id]_vars

\* Two operations were made within the same second and hold different
\* transaction ids.
C14_Witness ==
    /\ Len(access_logs) = 2
    /\ access_logs[1].tx_id.ts = access_logs[2].tx_id.ts
    /\ access_logs[1].tx_id # access_logs[2].tx_id
    /\ response.exc = NoExc
    /\ response.op \in {"anchor", "review", "log_access"}
    /\ response.ret.tx_id = access_logs[2].tx_id

\* C16: verify never raises: for every record_id, present or absent, and
\* every provided record it returns a result for that record_id.  When the
\* record is present, on_chain_hash and provided_hash are populated, error
\* is null and verified is false whenever the two hashes differ; when it is
\* absent, verified is false and error is not null.
C16_VerifyNeverRaises ==
    \A record_id \in RecordIds, record \in ContentInputs, accessor_id \in Users,
       now \in Now :
        LET out == verify_integrity(Ledger, record_id, record, accessor_id, now)
        IN /\ out.exc = NoExc
           /\ out.ret.record_id = record_id
           /\ out.ret.verified \in BOOLEAN
           /\ record_id \in DOMAIN records =>
                /\ out.ret.on_chain_hash = Some(records[record_id].data_hash)
                /\ out.ret.provided_hash = Some(compute_record_hash(record))
                /\ out.ret.error = None
                /\ out.ret.on_chain_hash # out.ret.provided_hash => out.ret.verified = FALSE
           /\ record_id \notin DOMAIN records =>
                /\ out.ret.verified = FALSE
                /\ out.ret.error # None

\* A verify of an absent record has just returned its result, after a
\* verify of an existing record that did not match.
C16_Witness ==
    /\ response.op = "verify"
    /\ response.exc = NoExc
    /\ response.ret.error # None
    /\ response.ret.record_id \notin DOMAIN records
    /\ Len(access_logs) = 2
    /\ access_logs[2].details = <<"Integrity check: ", "FAILED">>

\* C17: in every reachable state, directly after content has been
\* committed for a record (by the anchor, or as the updated_record of an
\* accepted review), verify with that content returns verified = true with
\* on_chain_hash = provided_hash, and verify with a record R returns
\* verified = false when R differs from the content in which allow-listed
\* fields are present or in the canonical string of one of them (null and
\* the empty string, a number and its decimal string are the same canonical
\* string).  A call that commits no content leaves data_hash as it is, and
\* verified is true exactly when compute_record_hash(R) is the stored
\* data_hash: what holds directly after the commit holds until the next one.
C17_VerifyMatchesCommitted ==
    LET \* the ledger after content has been committed for its record_id
        Committed(content) ==
            IF record_id_of(content) \notin DOMAIN records
            THEN anchor_record(Ledger, content, "u1", clock).L
            ELSE review_record(Ledger, record_id_of(content), "u2", "approved",
                               Some(content), clock).L
        \* the ledger after a call that commits no content
        After(rid, call) ==
            CASE call = 1 -> verify_integrity(Ledger, rid, c1, "u1", clock).L
              [] call = 2 -> log_access(Ledger, rid, "u2", "view", clock).L
              [] call = 3 -> review_record(Ledger, rid, "u2", "REJECTED", None, clock).L
              [] call = 4 -> review_record(Ledger, rid, "u2", "REJECTED", Some(EmptyDict), clock).L
              [] call = 5 -> review_record(Ledger, rid, "u2", "bogus", Some(c1b), clock).L
              [] call = 6 -> anchor_record(Ledger, c1b, "u1", clock).L
        CanonDiffers(R, S) ==
            \E f \in hashable_fields :
                \/ (f \in DOMAIN R) # (f \in DOMAIN S)
                \/ f \in DOMAIN R /\ f \in DOMAIN S
                     /\ canonical_value(R[f]) # canonical_value(S[f])
    IN /\ \A content \in AnchorInputs \cup {c1n} : \A L \in {Committed(content)} :
            \A R \in ContentInputs :
                \A v \in {verify_integrity(L, record_id_of(content), R, "u1", clock).ret} :
                    /\ R = content => v.verified /\ v.on_chain_hash = v.provided_hash
                    /\ CanonDiffers(R, content) => ~v.verified
       /\ \A rid \in DOMAIN records :
            /\ \A call \in 1..6 :
                    After(rid, call).records[rid].data_hash = records[rid].data_hash
            /\ \A R \in ContentInputs :
                    verify_integrity(Ledger, rid, R, "u1", clock).ret.verified
                        <=> compute_record_hash(R) = records[rid].data_hash

\* The anchored content has just been verified after a review that
\* committed no content.
C17_Witness ==
    /\ response.op = "verify"
    /\ response.ret.verified = TRUE
    /\ response.ret.on_chain_hash = Some(compute_record_hash(c1))
    /\ records["R1"].version = 2
    /\ records["R1"].previous_hash = None
    /\ Len(access_logs) = 3

\* C17 as stated: verify returns verified = false whenever R differs from
\* the content most recently committed in the value of any allow-listed
\* field (or in whether the field is present).
C17_VerifyDetectsEveryChange ==
    LET \* the ledger after content has been committed for its record_id
        Committed(content) ==
            IF record_id_of(content) \notin DOMAIN records
            THEN anchor_record(Ledger, content, "u1", clock).L
            ELSE review_record(Ledger, record_id_of(content), "u2", "approved",
                               Some(content), clock).L
        \* the ledger after a call that commits no content
        After(rid, call) ==
            CASE call = 1 -> verify_integrity(Ledger, rid, c1, "u1", clock).L
              [] call = 2 -> log_access(Ledger, rid, "u2", "view", clock).L
              [] call = 3 -> review_record(Ledger, rid, "u2", "REJECTED", None, clock).L
              [] call = 4 -> review_record(Ledger, rid, "u2", "REJECTED", Some(EmptyDict), clock).L
              [] call = 5 -> review_record(Ledger, rid, "u2", "bogus", Some(c1b), clock).L
              [] call = 6 -> anchor_record(Ledger, c1b, "u1", clock).L
        Differs(R, S) ==
            \E f \in hashable_fields :
                \/ (f \in DOMAIN R) # (f \in DOMAIN S)
                \/ f \in DOMAIN R /\ f \in DOMAIN S /\ R[f] # S[f]
    IN /\ \A content \in AnchorInputs \cup {c1n} : \A L \in {Committed(content)} :
            \A R \in ContentInputs :
                \A v \in {verify_integrity(L, record_id_of(content), R, "u1", clock).ret} :
                    /\ R = content => v.verified /\ v.on_chain_hash = v.provided_hash
                    /\ Differs(R, content) => ~v.verified
       /\ \A rid \in DOMAIN records :
            /\ \A call \in 1..6 :
                    After(rid, call).records[rid].data_hash = records[rid].data_hash
            /\ \A R \in ContentInputs :
                    verify_integrity(Ledger, rid, R, "u1", clock).ret.verified
                        <=> compute_record_hash(R) = records[rid].data_hash

\* C18: the end-to-end scenario.  Anchoring R1 with content c1 returns
\* hash h1 and status PENDING_REVIEW and stores version 1; while R1 is at
\* version 1 with hash h1, a review APPROVED by u2 with the corrected content
\* c1b (income 1200 for 1000) stores data_hash h2 # h1, previous_hash h1,
\* version 2 and status APPROVED; after it, verify with c1b returns verified
\* = true and on_chain_hash = h2, and verify with c1 returns verified =
\* false.
C18_Scenario ==
    LET h1 == compute_record_hash(c1)
        h2 == compute_record_hash(c1b)
        Reviewed(L) ==
            \A now \in Now :
                LET r == review_record(L, "R1", "u2", "APPROVED", Some(c1b), now)
                    v2 == verify_integrity(r.L, "R1", c1b, "u1", now)
                    v1 == verify_integrity(v2.L, "R1", c1, "u1", now)
                IN /\ r.exc = NoExc
                   /\ h2 # h1
                   /\ r.ret.new_hash = Some(h2)
                   /\ r.L.records["R1"].data_hash = h2
                   /\ r.L.records["R1"].previous_hash = Some(h1)
                   /\ r.L.records["R1"].version = 2
                   /\ r.L.records["R1"].current_status = "APPROVED"
                   /\ v2.ret.verified = TRUE
                   /\ v2.ret.on_chain_hash = Some(h2)
                   /\ v1.ret.verified = FALSE
    IN /\ "R1" \notin DOMAIN records =>
            \A now \in Now :
                LET a == anchor_record(Ledger, c1, "u1", now)
                IN /\ a.exc = NoExc
                   /\ a.ret.data_hash = h1
                   /\ a.ret.status = "PENDING_REVIEW"
                   /\ a.L.records["R1"].data_hash = h1
                   /\ a.L.records["R1"].current_status = "PENDING_REVIEW"
                   /\ a.L.records["R1"].version = 1
                   /\ Reviewed(a.L)
       /\ ("R1" \in DOMAIN records /\ records["R1"].version = 1) => Reviewed(Ledger)

\* The scenario has run as far as the verify with the first content: R1
\* was anchored, approved with the corrected content, and the verify with
\* the anchored content has just failed against h2.
C18_Witness ==
    /\ response.op = "verify"
    /\ response.ret.verified = FALSE
    /\ response.ret.provided_hash = Some(compute_record_hash(c1))
    /\ response.ret.on_chain_hash = Some(compute_record_hash(c1b))
    /\ response.ret.current_status = Some("APPROVED")
    /\ records["R1"].version = 2
    /\ records["R1"].previous_hash = Some(compute_record_hash(c1))
    /\ Len(access_logs) = 3

\* C19: anchor never rejects a record because of its flag_status: an
\* anchor fails only because the record_id exists; a record that is
\* anchored is stored with the upper-cased flag_status if that is NORMAL,
\* REVIEW or PRIORITY and with NORMAL otherwise or when the key is missing;
\* every stored record has a flag_status among the three.
C19_AnchorNeverRejectsFlag ==
    /\ response.op = "anchor" => response.exc \in {NoExc, AlreadyExists}
    /\ \A r \in DOMAIN records : records[r].flag_status \in FlagStatus
    /\ \A record \in AnchorInputs \cup {[f \in DOMAIN c2 \ {"flag_status"} |-> c2[f]]},
          user_id \in Users, now \in Now :
            record_id_of(record) \notin DOMAIN records =>
                LET out == anchor_record(Ledger, record, user_id, now)
                    given == Upper(Get(record, "flag_status", PyStr("NORMAL")).s)
                IN /\ out.exc = NoExc
                   /\ out.L.records[record_id_of(record)].flag_status
                        = IF given \in {"NORMAL", "REVIEW", "PRIORITY"} THEN given ELSE "NORMAL"

\* C20: compute_record_hash is deterministic and independent of key
\* order: the digest returned for a record is the digest of the record
\* however its keys have been reordered since, every order of the same
\* items has that digest, and the digest is determined by the set of
\* allow-listed (field, canonical value) pairs of the record.
C20_HashIgnoresKeyOrder ==
    /\ hash_ret # None => hash_ret = Some(compute_record_hash_items(hash_arg))
    /\ \A other \in Orderings({hash_arg[i] : i \in DOMAIN hash_arg}) :
            compute_record_hash_items(other) = compute_record_hash_items(hash_arg)
    /\ {compute_record_hash_items(hash_arg)[i] :
            i \in DOMAIN compute_record_hash_items(hash_arg)}
        = compute_record_hash(dict_of(hash_arg))

\* A record was hashed and afterwards rebuilt with its keys in an order
\* that is not the sorted one.
C20_Witness ==
    /\ hash_ret # None
    /\ response.op = "reorder"
    /\ Len(hash_arg) = 5
    /\ hash_arg[1][1] = "record_id"
    /\ hash_arg[2][1] = "income"

\* C21: adding, removing or changing a field outside the allow-list never
\* changes the digest of a record, and changing the value of an
\* allow-listed field changes the digest exactly when the canonical string
\* of the field changes: null and the empty string, and a number and its
\* decimal string, are hashed alike.
C21_HashTracksCanonicalFields ==
    [][LET before == compute_record_hash_items(hash_arg)
           after == compute_record_hash_items(hash_arg')
       IN /\ response'.op \in {"change_other", "add_other", "remove_other"} => after = before
          /\ response'.op = "change_listed" =>
                (after # before <=>
                    \E i \in DOMAIN hash_arg :
                        canonical_value(hash_arg'[i][2]) # canonical_value(hash_arg[i][2]))]_vars

\* C21 as stated: every change of the value of an allow-listed field
\* changes the digest.
C21_ListedChangeAlwaysChangesHash ==
    [][LET before == compute_record_hash_items(hash_arg)
           after == compute_record_hash_items(hash_arg')
       IN /\ response'.op \in {"change_other", "add_other", "remove_other"} => after = before
          /\ response'.op = "change_listed" => after # before]_vars

\* A record was hashed, then an allow-listed field of it was changed, and
\* the digest of the record is no longer the one returned.
C21_Witness ==
    /\ response.op = "change_listed"
    /\ hash_ret # None
    /\ hash_ret # Some(compute_record_hash_items(hash_arg))
    /\ "updated_at" \in Keys(hash_arg)

\* C22: get_access_logs(record_id) returns exactly the audit entries of
\* that record: as many as the log holds for it, each at the place that
\* its position in the log gives it among them, and none for an id without
\* entries; the facade returns copies of the same entries.
C22_AuditTrailExact ==
    \A record_id \in RecordIds \cup {"R3"} :
        LET trail == get_access_logs(Ledger, record_id)
            mine == {i \in DOMAIN access_logs : access_logs[i].record_id = record_id}
            place(i) == Cardinality({j \in mine : j <= i})
            copies == facade_get_access_logs(Ledger, record_id)
        IN /\ Len(trail) = Cardinality(mine)
           /\ \A i \in mine : trail[place(i)] = access_logs[i]
           /\ mine = {} => trail = << >>
           /\ copies.idxs = mine
           /\ \A i \in mine : copies.seen.logs[i] = access_logs[i]

\* The log holds an entry of R2 followed by an entry of R1, and the trail
\* of R1 is the second entry alone.
C22_Witness ==
    /\ Len(access_logs) = 2
    /\ access_logs[1].record_id = "R2"
    /\ access_logs[2].record_id = "R1"
    /\ get_access_logs(Ledger, "R1") = <<access_logs[2]>>
    /\ get_access_logs(Ledger, "R3") = << >>

\* C23: previous_hash is null when the record is created and stays as it
\* is in every step except an accepted review that supplies a new hash;
\* after such a review it is the data_hash the record had just before it.
\* It is therefore null until the first review that supplies a hash, and
\* afterwards the data_hash held before the most recent such review.
C23_PreviousHashLinksLastRehash ==
    [][\A r \in DOMAIN records' :
        LET rehash == /\ response'.op = "review"
                      /\ response'.exc = NoExc
                      /\ response'.ret.record_id = r
                      /\ response'.ret.new_hash # None
        IN IF r \notin DOMAIN records
           THEN records'[r].previous_hash = None
           ELSE IF rehash
                THEN records'[r].previous_hash = Some(records[r].data_hash)
                ELSE records'[r].previous_hash = records[r].previous_hash]_vars

\* C23 as stated: after every accepted review, with or without a new hash,
\* previous_hash is the data_hash the record had just before that review.
C23_PreviousHashIsHashBeforeLastReview ==
    [][\A r \in DOMAIN records' :
        LET accepted == /\ response'.op = "review"
                        /\ response'.exc = NoExc
                        /\ response'.ret.record_id = r
        IN IF r \notin DOMAIN records
           THEN records'[r].previous_hash = None
           ELSE IF accepted
                THEN records'[r].previous_hash = Some(records[r].data_hash)
                ELSE records'[r].previous_hash = records[r].previous_hash]_vars

\* R1 was anchored with c1, reviewed with the corrected record c1b and then
\* reviewed without a record: previous_hash is still the hash of c1.
C23_Witness ==
    /\ "R1" \in DOMAIN records
    /\ records["R1"].version = 3
    /\ records["R1"].data_hash = compute_record_hash(c1b)
    /\ records["R1"].previous_hash = Some(compute_record_hash(c1))
    /\ response.op = "review"
    /\ response.exc = NoExc
    /\ response.ret.new_hash = None

\* C24: the data_hash of a stored record differs after a step only if the
\* step is an accepted review of that record that supplies a new hash; in
\* every such step data_hash becomes the supplied hash and previous_hash
\* the old data_hash; every other step (verify, log_access, a failed
\* anchor or review, a review without a new hash) leaves both as they are.
C24_HashChangesOnlyByRehash ==
    [][\A r \in DOMAIN records :
        LET rehash == /\ response'.op = "review"
                      /\ response'.exc = NoExc
                      /\ response'.ret.record_id = r
                      /\ response'.ret.new_hash # None
        IN /\ records'[r].data_hash # records[r].data_hash => rehash
           /\ rehash => /\ records'[r].data_hash = response'.ret.new_hash[1]
                        /\ records'[r].previous_hash = Some(records[r].data_hash)
           /\ ~rehash => /\ records'[r].data_hash = records[r].data_hash
                         /\ records'[r].previous_hash = records[r].previous_hash]_vars

\* A review without a new hash was accepted for a record whose hash an
\* earlier review had replaced: the two hashes are those that review left.
C24_Witness ==
    /\ "R1" \in DOMAIN records
    /\ records["R1"].version = 3
    /\ records["R1"].data_hash = compute_record_hash(c1b)
    /\ records["R1"].previous_hash = Some(compute_record_hash(c1))
    /\ records["R1"].current_status = "REJECTED"
    /\ response.op = "review"
    /\ response.exc = NoExc
    /\ response.ret.new_hash = None
    /\ response.ret.new_status = "REJECTED"

\* C25: record_id, created_by, created_at, owner_household_id and
\* flag_status of a stored record are the same after every step as before
\* it, whatever the step is: hence they keep the values given at creation.
C25_CreationFieldsNeverChange ==
    [][\A r \in DOMAIN records :
        /\ r \in DOMAIN records'
        /\ records'[r].record_id = records[r].record_id
        /\ records'[r].created_by = records[r].created_by
        /\ records'[r].created_at = records[r].created_at
        /\ records'[r].owner_household_id = records[r].owner_household_id
        /\ records'[r].flag_status = records[r].flag_status]_vars

\* R1, created by u1 at time 0 with flag REVIEW, has been reviewed by u2 at
\* time 1 and an anchor of the same id has since been refused.
C25_Witness ==
    /\ "R1" \in DOMAIN records
    /\ records["R1"].version = 2
    /\ records["R1"].record_id = "R1"
    /\ records["R1"].created_by = "u1"
    /\ records["R1"].created_at = 0
    /\ records["R1"].owner_household_id = "H1"
    /\ records["R1"].flag_status = "REVIEW"
    /\ records["R1"].last_updated_by = "u2"
    /\ records["R1"].last_updated_at = 1
    /\ response.op = "anchor"
    /\ response.exc = AlreadyExists

\* C26: a stored record_id is stored in every later state, and an id is
\* created at most once: the log holds exactly one INITIALIZE entry for
\* each stored id and none for any other, and an id enters the store only
\* in the step that appends its INITIALIZE entry.
C26_RecordsAreNeverRemoved ==
    /\ [](\A r \in RecordIds :
            Cardinality({i \in DOMAIN access_logs :
                            /\ access_logs[i].record_id = r
                            /\ access_logs[i].action_type = "INITIALIZE"})
                = IF r \in DOMAIN records THEN 1 ELSE 0)
    /\ [](DOMAIN records \subseteq RecordIds)
    /\ [][/\ DOMAIN records \subseteq DOMAIN records'
          /\ \A r \in DOMAIN records' \ DOMAIN records :
                /\ Len(access_logs') = Len(access_logs) + 1
                /\ access_logs'[Len(access_logs')].record_id = r
                /\ access_logs'[Len(access_logs')].action_type = "INITIALIZE"]_vars

\* Both records are stored and a further anchor of one of them has just
\* been refused.
C26_Witness ==
    /\ DOMAIN records = {"R1", "R2"}
    /\ Len(access_logs) = 2
    /\ access_logs[1].record_id = "R2"
    /\ access_logs[2].record_id = "R1"
    /\ response.op = "anchor"
    /\ response.exc = AlreadyExists

\* C27: when anchor, review or log_access has returned a tx_id, the audit
\* log holds an entry with that tx_id, for the record and with the action
\* type of the call.
C27_ReturnedTxIsLogged ==
    (response.op \in {"anchor", "review", "log_access"} /\ response.exc = NoExc) =>
        \E i \in DOMAIN access_logs :
            /\ access_logs[i].tx_id = response.ret.tx_id
            /\ access_logs[i].record_id = response.ret.record_id
            /\ access_logs[i].action_type =
                (CASE response.op = "anchor" -> "INITIALIZE"
                   [] response.op = "review" -> "REVIEW"
                   [] response.op = "log_access" -> "ACCESS")

\* log_access has returned the tx_id of the second entry of the log, an
\* ACCESS entry that follows the INITIALIZE entry of the record.
C27_Witness ==
    /\ response.op = "log_access"
    /\ response.exc = NoExc
    /\ Len(access_logs) = 2
    /\ access_logs[1].action_type = "INITIALIZE"
    /\ access_logs[2].action_type = "ACCESS"
    /\ access_logs[2].tx_id = response.ret.tx_id
    /\ access_logs[1].tx_id # response.ret.tx_id

\* C29: any two audit entries have different log_ids, and of two entries
\* of the same record the one appended later has the larger sequence
\* number in its log_id.
C29_LogIdsDistinctAndOrdered ==
    \A i, j \in DOMAIN access_logs :
        i < j =>
            /\ access_logs[i].log_id # access_logs[j].log_id
            /\ access_logs[i].record_id = access_logs[j].record_id
                => access_logs[i].log_id[3] < access_logs[j].log_id[3]

\* The log holds two entries of R1, numbered 0 and 1.
C29_Witness ==
    /\ Len(access_logs) = 2
    /\ access_logs[1].log_id = <<"LOG", "R1", 0>>
    /\ access_logs[2].log_id = <<"LOG", "R1", 1>>
    /\ access_logs[2].action_type = "VERIFY"

\* C28: a read of R1 that runs while other calls are in flight returns
\* whole states only.  In the step in which get_ledger_record or
\* get_access_logs returns, no create or review is part-way through its
\* body; the copies returned equal the stored record and entries; the
\* record returned has one INITIALIZE or REVIEW entry in the log for each
\* unit of its version, and its status, last_updated_by and last_updated_at
\* are those of the latest such entry; the trail returned has as many
\* INITIALIZE and REVIEW entries as the version of the stored record.
C28_ReadsSeeWholeStates ==
    [][\A t \in TaskIds :
        (/\ tasks[t].pc = "entered"
         /\ tasks[t].call \in {"get_ledger_record", "get_access_logs"}
         /\ tasks'[t].pc = "done") =>
            LET made(logs) == {i \in DOMAIN logs :
                                /\ logs[i].record_id = "R1"
                                /\ logs[i].action_type \in {"INITIALIZE", "REVIEW"}}
                last == CHOOSE i \in made(access_logs) : \A j \in made(access_logs) : j <= i
            IN /\ \A u \in TaskIds : tasks[u].pc \notin Running
               /\ held'.seen = View(Ledger, [held' EXCEPT !.live = TRUE])
               /\ tasks[t].call = "get_ledger_record" =>
                    /\ held'.rids = {"R1"} \cap DOMAIN records
                    /\ \A r \in held'.rids :
                        LET rec == held'.seen.records[r]
                        IN /\ rec.version = Cardinality(made(access_logs))
                           /\ rec.last_updated_by = access_logs[last].accessor_id
                           /\ rec.last_updated_at = access_logs[last].timestamp
                           /\ rec.current_status =
                                IF access_logs[last].action_type = "REVIEW"
                                THEN access_logs[last].details[2]
                                ELSE "PENDING_REVIEW"
                           /\ rec.version = 1 => rec.previous_hash = None
               /\ tasks[t].call = "get_access_logs" =>
                    /\ held'.idxs = {i \in DOMAIN access_logs : access_logs[i].record_id = "R1"}
                    /\ Cardinality(made(held'.seen.logs))
                        = IF "R1" \in DOMAIN records THEN records["R1"].version ELSE 0]_vars

\* get_ledger_record has returned R1 as it was anchored while a review of
\* R1 by the other caller is in flight.
C28_Witness ==
    /\ tasks[2].call = "get_ledger_record"
    /\ tasks[2].pc = "done"
    /\ response.op = "get_ledger_record"
    /\ held.rids = {"R1"}
    /\ held.seen.records["R1"].version = 1
    /\ tasks[1].call = "review"
    /\ tasks[1].pc = "entered"
    /\ tasks[1].arg = Some(c1b)

\* C30: of the anchor calls of one record_id that run concurrently, one
\* succeeds and every other raises the already-exists error: the log never
\* holds two INITIALIZE entries for the id and holds one as soon as an
\* anchor has finished, no two finished anchors have both succeeded, when
\* every caller has finished an anchor exactly one has succeeded, and the
\* stored record and the INITIALIZE entry carry the caller and the data of
\* the anchor that succeeded.
C30_OneCreateWins ==
    LET inits == {i \in DOMAIN access_logs :
                    /\ access_logs[i].record_id = "R1"
                    /\ access_logs[i].action_type = "INITIALIZE"}
        finished == {t \in TaskIds : tasks[t].call = "anchor" /\ tasks[t].pc = "done"}
        won == {t \in finished : tasks[t].exc = NoExc}
    IN /\ Cardinality(inits) <= 1
       /\ Cardinality(won) <= 1
       /\ finished # {} => Cardinality(inits) = 1
       /\ finished = TaskIds => Cardinality(won) = 1
       /\ \A t \in finished \ won : tasks[t].exc = AlreadyExists
       /\ \A t \in won : \A i \in inits :
            /\ access_logs[i].tx_id = tasks[t].ret
            /\ access_logs[i].accessor_id = reviewer_of(t)
            /\ records["R1"].created_by = reviewer_of(t)
            /\ records["R1"].version = 1 =>
                    records["R1"].data_hash = compute_record_hash(data_of(t))

\* Both callers have anchored R1 concurrently: the second caller's anchor
\* succeeded with its record c1b and the first caller's was refused.
C30_Witness ==
    /\ \A t \in TaskIds : tasks[t].call = "anchor" /\ tasks[t].pc = "done"
    /\ tasks[2].exc = NoExc
    /\ tasks[1].exc = AlreadyExists
    /\ records["R1"].created_by = "u2"
    /\ records["R1"].data_hash = compute_record_hash(c1b)
    /\ Len(access_logs) = 1

\* C31: a facade review that is given an updated_record, whatever mapping
\* it is (one with allow-listed fields, one with none, the empty one),
\* returns new_hash = compute_record_hash(updated_record), stores it as
\* data_hash and shifts the old data_hash into previous_hash; a review
\* that is given none returns no new_hash and leaves data_hash as it was.
C31_SuppliedRecordIsChained ==
    \A reviewer_id \in Users, now \in Now,
       updated_record \in UpdatedInputs \cup {Some([flag_status |-> PyStr("review")])} :
        "R1" \in DOMAIN records =>
            LET old == records["R1"]
                out == review_record(Ledger, "R1", reviewer_id, "approved", updated_record, now)
                new == out.L.records["R1"]
            IN /\ out.exc = NoExc
               /\ IF updated_record # None
                  THEN /\ out.ret.new_hash = Some(compute_record_hash(updated_record[1]))
                       /\ new.data_hash = compute_record_hash(updated_record[1])
                       /\ new.previous_hash = Some(old.data_hash)
                  ELSE /\ out.ret.new_hash = None
                       /\ new.data_hash = old.data_hash

\* C32: a facade review of a stored record accepts a valid decision in any
\* case: the stored current_status is the upper-cased decision, new_status
\* in the result is that same value, and the REVIEW entry appended by the
\* call names it.
C32_DecisionIsUpperCased ==
    \A reviewer_id \in Users, now \in Now, updated_record \in UpdatedInputs,
       given \in {<<"approved", "APPROVED">>, <<"Rejected", "REJECTED">>,
                  <<"REJECTED", "REJECTED">>, <<"PRIORITY", "PRIORITY">>} :
        "R1" \in DOMAIN records =>
            LET out == review_record(Ledger, "R1", reviewer_id, given[1], updated_record, now)
                entry == out.L.access_logs[Len(out.L.access_logs)]
            IN /\ out.exc = NoExc
               /\ out.L.records["R1"].current_status = given[2]
               /\ out.ret.new_status = given[2]
               /\ Len(out.L.access_logs) = Len(access_logs) + 1
               /\ entry.action_type = "REVIEW"
               /\ entry.record_id = "R1"
               /\ entry.details = <<"Decision: ", given[2]>>
               /\ entry.tx_id = out.ret.tx_id

\* A review with the decision "approved" has been accepted: the record is
\* APPROVED and the last entry of the log says so.
C32_Witness ==
    /\ response.op = "review"
    /\ response.exc = NoExc
    /\ response.ret.new_status = "APPROVED"
    /\ records["R1"].current_status = "APPROVED"
    /\ access_logs[Len(access_logs)].details = <<"Decision: ", "APPROVED">>
    /\ access_logs[Len(access_logs)].tx_id = response.ret.tx_id

\* C33: a stored record can always be reviewed again.  Whatever its status
\* (PENDING_REVIEW, APPROVED, REJECTED, NEEDS_VERIFICATION, PRIORITY), a
\* review with any of the four decisions other than PENDING_REVIEW, the
\* current status included, is accepted, sets that status and makes the
\* version one larger.
C33_ReReviewAlwaysAccepted ==
    /\ \A r \in DOMAIN records : records[r].current_status \in RecordStatus
    /\ \A reviewer_id \in Users, now \in Now,
          decision \in {"APPROVED", "REJECTED", "NEEDS_VERIFICATION", "PRIORITY"} :
            "R1" \in DOMAIN records =>
                LET out == review_record(Ledger, "R1", reviewer_id, decision, None, now)
                IN /\ out.exc = NoExc
                   /\ out.L.records["R1"].current_status = decision
                   /\ out.L.records["R1"].version = records["R1"].version + 1
                   /\ Len(out.L.access_logs) = Len(access_logs) + 1

\* R1 was rejected and then reviewed again with the decision
\* NEEDS_VERIFICATION: it is at version 3.
C33_Witness ==
    /\ Len(access_logs) = 3
    /\ access_logs[2].details = <<"Decision: ", "REJECTED">>
    /\ access_logs[3].details = <<"Decision: ", "NEEDS_VERIFICATION">>
    /\ records["R1"].current_status = "NEEDS_VERIFICATION"
    /\ records["R1"].version = 3
    /\ response.op = "review"
    /\ response.exc = NoExc

\* C34: last_updated_by and last_updated_at of a stored record are the
\* caller and the time of the latest INITIALIZE or REVIEW entry of the
\* record, that is, of the most recent accepted anchor or review of it;
\* last_updated_at is not earlier than created_at; and a verify, a
\* log_access or a call that raised leaves both fields as they were.
C34_LastUpdatedIsLastMutation ==
    /\ [](\A r \in DOMAIN records :
            LET made == {i \in DOMAIN access_logs :
                            /\ access_logs[i].record_id = r
                            /\ access_logs[i].action_type \in {"INITIALIZE", "REVIEW"}}
                last == CHOOSE i \in made : \A j \in made : j <= i
            IN /\ made # {}
               /\ records[r].last_updated_by = access_logs[last].accessor_id
               /\ records[r].last_updated_at = access_logs[last].timestamp
               /\ records[r].last_updated_at >= records[r].created_at)
    /\ [][(response'.op \in {"verify", "log_access"} \/ response'.exc # NoExc) =>
            \A r \in DOMAIN records :
                /\ r \in DOMAIN records'
                /\ records'[r].last_updated_by = records[r].last_updated_by
                /\ records'[r].last_updated_at = records[r].last_updated_at]_vars

\* R1, created by u1 at time 0 and reviewed by u2 at time 1, has since been
\* verified: it still names u2 and time 1.
C34_Witness ==
    /\ response.op = "verify"
    /\ response.exc = NoExc
    /\ Len(access_logs) = 3
    /\ access_logs[2].action_type = "REVIEW"
    /\ access_logs[3].action_type = "VERIFY"
    /\ access_logs[3].accessor_id = "u1"
    /\ records["R1"].created_by = "u1"
    /\ records["R1"].created_at = 0
    /\ records["R1"].last_updated_by = "u2"
    /\ records["R1"].last_updated_at = 1

\* C35: a record and the same record with one more allow-listed field, or
\* one fewer, have different digests, also when the value of that field is
\* null; and every allow-listed field that a record holds is in the hashed
\* text, a null one with the empty string as its value.
C35_PresenceChangesHash ==
    /\ [](\A i \in DOMAIN hash_arg :
            hash_arg[i][1] \in hashable_fields =>
                \E k \in DOMAIN compute_record_hash_items(hash_arg) :
                    compute_record_hash_items(hash_arg)[k]
                        = <<hash_arg[i][1],
                            IF hash_arg[i][2] = PyNone THEN "" ELSE Str(hash_arg[i][2])>>)
    /\ [][response'.op \in {"add_listed", "remove_listed"} =>
            compute_record_hash_items(hash_arg') # compute_record_hash_items(hash_arg)]_vars

\* A record without a name was hashed and the field name was then added
\* with the value null: the digest returned is no longer that of the record.
C35_Witness ==
    /\ response.op = "add_listed"
    /\ "name" \in Keys(hash_arg)
    /\ Item(hash_arg, "name") = PyNone
    /\ hash_ret # None
    /\ hash_ret # Some(compute_record_hash_items(hash_arg))
    /\ hash_ret = Some(compute_record_hash_items(DelItem(hash_arg, "name")))

\* C36: the digest does not depend on how a number is represented: when
\* the value of an allow-listed field is replaced by another representation
\* of the same number (the int 1000, the float 1000.0, the string "1000"),
\* the digest of the record stays the same.
C36_HashIgnoresNumericRepresentation ==
    [][LET number(v) == CASE v.t \in {"int", "float"} -> <<v.n>>
                          [] v = PyStr("1000") -> <<1000>>
                          [] OTHER -> << >>
       IN (/\ response'.op = "change_listed"
           /\ \A i \in DOMAIN hash_arg :
                hash_arg'[i] # hash_arg[i] =>
                    /\ number(hash_arg[i][2]) # << >>
                    /\ number(hash_arg'[i][2]) = number(hash_arg[i][2]))
          => compute_record_hash_items(hash_arg') = compute_record_hash_items(hash_arg)]_vars

\* C37: in every reachable state the version of each stored record is 1
\* plus the number of REVIEW entries of that record in the log, and no
\* step makes a version smaller: a version changes only in an accepted
\* review of that record, by one.
C37_VersionIsOnePlusReviews ==
    /\ [](\A r \in DOMAIN records :
            records[r].version
                = 1 + Cardinality({i \in DOMAIN access_logs :
                                    /\ access_logs[i].record_id = r
                                    /\ access_logs[i].action_type = "REVIEW"}))
    /\ [][\A r \in DOMAIN records :
            /\ r \in DOMAIN records'
            /\ records'[r].version >= records[r].version
            /\ records'[r].version # records[r].version =>
                    /\ records'[r].version = records[r].version + 1
                    /\ response'.op = "review"
                    /\ response'.exc = NoExc
                    /\ response'.ret.record_id = r]_vars

\* R1 has been anchored and reviewed, and a review of R2, which is not
\* stored, has then been refused.
C37_Witness ==
    /\ response.op = "review"
    /\ response.exc = NotFound
    /\ DOMAIN records = {"R1"}
    /\ records["R1"].version = 2
    /\ Len(access_logs) = 2
    /\ access_logs[2].action_type = "REVIEW"

\* C38: the log agrees with the store.  Every stored record has exactly
\* one INITIALIZE entry, and each REVIEW or VERIFY entry of the record
\* comes after it; every INITIALIZE, REVIEW or VERIFY entry belongs to a
\* stored record; an entry of a record_id that is not stored, or that
\* comes before the INITIALIZE entry of its record, is an ACCESS entry.
C38_LogAgreesWithStore ==
    LET inits(r) == {i \in DOMAIN access_logs :
                        /\ access_logs[i].record_id = r
                        /\ access_logs[i].action_type = "INITIALIZE"}
    IN /\ \A r \in DOMAIN records : Cardinality(inits(r)) = 1
       /\ \A i \in DOMAIN access_logs :
            /\ access_logs[i].action_type \in {"INITIALIZE", "REVIEW", "VERIFY", "ACCESS"}
            /\ access_logs[i].action_type # "ACCESS" =>
                    access_logs[i].record_id \in DOMAIN records
            /\ access_logs[i].action_type \in {"REVIEW", "VERIFY"} =>
                    \E j \in inits(access_logs[i].record_id) : j < i
            /\ (\/ access_logs[i].record_id \notin DOMAIN records
                \/ \A j \in inits(access_logs[i].record_id) : i < j)
                    => access_logs[i].action_type = "ACCESS"

\* An access to R1 was logged before R1 was anchored: the ACCESS entry
\* precedes the INITIALIZE entry.
C38_Witness ==
    /\ Len(access_logs) = 2
    /\ access_logs[1].record_id = "R1"
    /\ access_logs[1].action_type = "ACCESS"
    /\ access_logs[2].record_id = "R1"
    /\ access_logs[2].action_type = "INITIALIZE"
    /\ "R1" \in DOMAIN records

\* C39: the transaction counter is the number of entries in the log, and
\* the n-th entry carries the n-th transaction id.
C39_CounterIsLogLength ==
    /\ tx_counter = Len(access_logs)
    /\ \A i \in DOMAIN access_logs : access_logs[i].tx_id.n = i

\* After one anchor, a verify of a record that is not stored has returned
\* its error: no id was taken and no entry appended.
C39_Witness ==
    /\ response.op = "verify"
    /\ response.exc = NoExc
    /\ response.ret.verified = FALSE
    /\ response.ret.error # None
    /\ tx_counter = 1
    /\ Len(access_logs) = 1
    /\ access_logs[1].action_type = "INITIALIZE"

====
